---- MODULE Spec2Model ----
(***************************************************************************)
(* Model of the deterministic scheduler of ai-project-manager              *)
(* (src/agent_controller/scheduler.py): create_schedule and _to_minutes.   *)
(*                                                                         *)
(* Encoding of Python values:                                              *)
(*   - a string is the sequence of its code points ("1" is <<49>>);        *)
(*   - an id is [kind, n, s]: kind "int" carries the integer n, kind "str" *)
(*     carries the string s, kind "none" is a missing id (None);           *)
(*   - estimate_minutes is [kind, v2] with v2 twice the numeric value      *)
(*     (so 20.5 is v2 = 41), estimate_hours is [kind, v8] with v8 eight    *)
(*     times the value; kind "absent" = key missing, "null" = None,        *)
(*     "bad" = a value int()/float() rejects (e.g. "abc");                 *)
(*   - hours_per_day is [kind, v8] (eighths of an hour), buffer_ratio is   *)
(*     buf4 quarters; all of these are exactly representable floats, so    *)
(*     the float arithmetic of the code is exact rational arithmetic.      *)
(***************************************************************************)
EXTENDS Integers, Sequences, FiniteSets, TLC

\* ------------------------------------------------------------------------
\* Bounds of the model
\* ------------------------------------------------------------------------

\* longest task list handed to create_schedule
MaxTasks == 3

\* ------------------------------------------------------------------------
\* Python primitives
\* ------------------------------------------------------------------------

\* round(n/d) for d > 0: Python 3 rounds halves to the even neighbour
RoundHalfEven(n, d) ==
  LET q == n \div d
      r == n % d
  IN  IF 2 * r < d THEN q
      ELSE IF 2 * r > d THEN q + 1
      ELSE IF q % 2 = 0 THEN q ELSE q + 1

\* int(n/d) for d > 0: truncation toward zero
IntTrunc(n, d) == IF n >= 0 THEN n \div d ELSE -((-n) \div d)

RECURSIVE NatDigits(_)
\* decimal digits of a natural number, as code points
NatDigits(n) == IF n < 10 THEN <<48 + n>> ELSE NatDigits(n \div 10) \o <<48 + (n % 10)>>

\* str(n) of an integer
IntStr(n) == IF n < 0 THEN <<45>> \o NatDigits(-n) ELSE NatDigits(n)

\* str(None)
NoneStr == <<78, 111, 110, 101>>

\* str(x) of an id value
PyStr(id) ==
  CASE id.kind = "int" -> IntStr(id.n)
    [] id.kind = "str" -> id.s
    [] OTHER           -> NoneStr

RECURSIVE StrLess(_, _)
\* a < b on Python strings: lexicographic by code point
StrLess(a, b) ==
  IF b = <<>> THEN FALSE
  ELSE IF a = <<>> THEN TRUE
  ELSE IF Head(a) < Head(b) THEN TRUE
  ELSE IF Head(a) > Head(b) THEN FALSE
  ELSE StrLess(Tail(a), Tail(b))

\* ------------------------------------------------------------------------
\* _to_minutes and the normalisation loop
\* ------------------------------------------------------------------------

\* default duration of a task without estimate
DefaultMinutes == 60

\* default hours_per_day of availability.get("hours_per_day", 4), in eighths
DefaultHours8 == 32

\* _to_minutes raises (int()/float() reject the value)
ToMinutesRaises(task) ==
  IF task.em.kind \notin {"absent", "null"} THEN task.em.kind = "bad"
  ELSE IF task.eh.kind \notin {"absent", "null"} THEN task.eh.kind = "bad"
  ELSE FALSE

\* _to_minutes with the two tests in the other order: hours win
ToMinutesHoursFirst(task) ==
  IF task.eh.kind \notin {"absent", "null"} THEN RoundHalfEven(task.eh.v8 * 60, 8)
  ELSE IF task.em.kind \notin {"absent", "null"} THEN IntTrunc(task.em.v2, 2)
  ELSE DefaultMinutes

\* _to_minutes(task), where it returns
ToMinutes(task) ==
  IF task.em.kind \notin {"absent", "null"} THEN IntTrunc(task.em.v2, 2)
  ELSE IF task.eh.kind \notin {"absent", "null"} THEN RoundHalfEven(task.eh.v8 * 60, 8)
  ELSE DefaultMinutes

\* "if minutes < block_min: minutes = block_min" without the assignment
NoClamp(minutes, block_min) == minutes

\* apply minimal block granularity
Clamp(minutes, block_min) == IF minutes < block_min THEN block_min ELSE minutes

\* one element of converted
ConvertOne(t, block_min) ==
  [id |-> t.id, minutes |-> Clamp(ToMinutes(t), block_min), orig |-> t]

\* capacity check that lets a zero capacity through
NegativeCapacity(cap) == cap < 0

\* the guard of the configuration error
NonPositiveCapacity(cap) == cap <= 0

\* hours_per_day of the availability, in eighths of an hour
HoursPerDay8(av) == IF av.hours.kind = "absent" THEN DefaultHours8 ELSE av.hours.v8

\* capacity_per_day = int(round(hours_per_day * 60 * (1.0 - buffer_ratio)))
CapacityPerDay(av, buf4) == RoundHalfEven(HoursPerDay8(av) * 60 * (4 - buf4), 32)

\* ------------------------------------------------------------------------
\* The orderer: converted.sort(key=(-minutes, str(id))), a stable sort
\* ------------------------------------------------------------------------

\* sort key that forgets the id tie-break
KeyLessNoId(x, y) == x.minutes > y.minutes

\* sort key that compares integer ids as numbers
KeyLessNumericId(x, y) ==
  \/ x.minutes > y.minutes
  \/ /\ x.minutes = y.minutes
     /\ IF x.id.kind = "int" /\ y.id.kind = "int"
          THEN x.id.n < y.id.n
          ELSE StrLess(PyStr(x.id), PyStr(y.id))

\* key(x) < key(y) for the key (-minutes, str(id))
KeyLess(x, y) ==
  \/ x.minutes > y.minutes
  \/ x.minutes = y.minutes /\ StrLess(PyStr(x.id), PyStr(y.id))

RECURSIVE InsertConverted(_, _)
\* insert x into a sorted list after every element whose key is <= key(x)
InsertConverted(sorted, x) ==
  IF sorted = <<>> THEN <<x>>
  ELSE IF KeyLess(x, Head(sorted)) THEN <<x>> \o sorted
  ELSE <<Head(sorted)>> \o InsertConverted(Tail(sorted), x)

\* a list that is left in the order of the input
InputOrder(s) == s

RECURSIVE SortConverted(_)
\* list.sort: stable, equal keys keep their input order
SortConverted(s) ==
  IF s = <<>> THEN <<>>
  ELSE InsertConverted(SortConverted(SubSeq(s, 1, Len(s) - 1)), s[Len(s)])

\* a sort in place of the caller's list: the records in sorted order
SortedInPlace(ts, sorted) == [i \in 1..Len(sorted) |-> sorted[i].orig]

\* the caller's task list after the sort: lines 58 and 66 build new lists
\* (task_list, converted) and line 75 sorts converted, not the argument
CallerTasks(ts, sorted) == ts

\* ------------------------------------------------------------------------
\* The allocator: greedy placement into day bins
\* ------------------------------------------------------------------------

\* a process-wide list of days that is never cleared
StaleDays(old) == old

\* days = [] : no state survives from an earlier call
FreshDays(old) == <<>>

\* fit test that looks at the load before the task is added
FitsBefore(load, minutes, cap) == load <= cap

\* fit test that refuses an exact fit
FitsStrictly(load, minutes, cap) == load + minutes < cap

\* days[di]["load"] + item["minutes"] <= capacity_per_day
Fits(load, minutes, cap) == load + minutes <= cap

\* scan order by day index only (first fit)
DayKeyLessByIndex(days, i, j) == i < j

\* key(i) < key(j) for the key (days[i]["load"], i)
DayKeyLess(days, i, j) ==
  \/ days[i].load < days[j].load
  \/ days[i].load = days[j].load /\ i < j

RECURSIVE InsertDay(_, _, _)
InsertDay(days, sorted, i) ==
  IF sorted = <<>> THEN <<i>>
  ELSE IF DayKeyLess(days, i, Head(sorted)) THEN <<i>> \o sorted
  ELSE <<Head(sorted)>> \o InsertDay(days, Tail(sorted), i)

RECURSIVE OrderUpTo(_, _)
OrderUpTo(days, n) ==
  IF n = 0 THEN <<>> ELSE InsertDay(days, OrderUpTo(days, n - 1), n)

\* order = sorted(range(len(days)), key=lambda i: (days[i]["load"], i));
\* positions are 1-based here, the day index of the code is position - 1
Order(days) == OrderUpTo(days, Len(days))

RECURSIVE FirstFit(_, _, _, _)
\* the scan "for di in order: if fits: candidate_day_idx = di; break";
\* 0 stands for candidate_day_idx = None
FirstFit(order, days, minutes, cap) ==
  IF order = <<>> THEN 0
  ELSE IF Fits(days[Head(order)].load, minutes, cap) THEN Head(order)
  ELSE FirstFit(Tail(order), days, minutes, cap)

\* start_min that ignores the load of the day
StartMinZero(day) == 0

\* start_min = day["load"]
StartMin(day) == day.load

\* item["minutes"] >= block_max
SplitRecommendedGeq(minutes, block_max) == minutes >= block_max

\* "split_recommended": item["minutes"] > block_max
SplitRecommended(minutes, block_max) == minutes > block_max

\* an allocator that performs the split: a block_max chunk and the rest
SplitEntries(item, start_min, block_max) ==
  IF item.minutes > block_max /\ block_max > 0
  THEN << [task_id |-> item.id, start_min |-> start_min,
           end_min |-> start_min + block_max, duration_min |-> block_max,
           split_recommended |-> FALSE],
          [task_id |-> item.id, start_min |-> start_min + block_max,
           end_min |-> start_min + item.minutes,
           duration_min |-> item.minutes - block_max,
           split_recommended |-> FALSE] >>
  ELSE << [task_id |-> item.id, start_min |-> start_min,
           end_min |-> start_min + item.minutes, duration_min |-> item.minutes,
           split_recommended |-> FALSE] >>

\* the entries appended to day["tasks"] for one item: always exactly one
EntriesFor(item, start_min, block_max) ==
  << [task_id           |-> item.id,
      start_min         |-> start_min,
      end_min           |-> start_min + item.minutes,
      duration_min      |-> item.minutes,
      split_recommended |-> SplitRecommended(item.minutes, block_max)] >>

\* one iteration of "for item in converted"
PlaceItem(days, item, cap, block_max) ==
  LET c     == FirstFit(Order(days), days, item.minutes, cap)
      days1 == IF c = 0 THEN Append(days, [load |-> 0, tasks |-> <<>>]) ELSE days
      idx   == IF c = 0 THEN Len(days1) ELSE c
      day   == days1[idx]
  IN  [days1 EXCEPT ![idx] =
         [load  |-> day.load + item.minutes,
          tasks |-> day.tasks \o EntriesFor(item, StartMin(day), block_max)]]

\* ------------------------------------------------------------------------
\* The timestamp projector: datetime.fromisoformat, timedelta, isoformat
\* ------------------------------------------------------------------------

IsLeap(y) == (y % 4 = 0 /\ y % 100 # 0) \/ y % 400 = 0

DaysInMonth(y, m) ==
  IF m = 2 THEN (IF IsLeap(y) THEN 29 ELSE 28)
  ELSE IF m \in {4, 6, 9, 11} THEN 30 ELSE 31

RECURSIVE AddDays(_, _)
\* date + timedelta(days=k) on a calendar date [Y, M, D]
AddDays(date, k) ==
  IF k = 0 THEN date
  ELSE IF k > 0 THEN
    (IF date.D < DaysInMonth(date.Y, date.M)
       THEN AddDays([date EXCEPT !.D = @ + 1], k - 1)
     ELSE IF date.M < 12
       THEN AddDays([Y |-> date.Y, M |-> date.M + 1, D |-> 1], k - 1)
     ELSE AddDays([Y |-> date.Y + 1, M |-> 1, D |-> 1], k - 1))
  ELSE
    (IF date.D > 1
       THEN AddDays([date EXCEPT !.D = @ - 1], k + 1)
     ELSE IF date.M > 1
       THEN AddDays([Y |-> date.Y, M |-> date.M - 1,
                     D |-> DaysInMonth(date.Y, date.M - 1)], k + 1)
     ELSE AddDays([Y |-> date.Y - 1, M |-> 12, D |-> 31], k + 1))

\* projection that leaves out timedelta(days=di)
IsoTimestampNoDay(base, di, mins) ==
  LET total == base.tod + mins
      date  == AddDays([Y |-> base.Y, M |-> base.M, D |-> base.D],
                       total \div 1440)
  IN  [Y |-> date.Y, M |-> date.M, D |-> date.D,
       h |-> (total % 1440) \div 60, mi |-> (total % 1440) % 60]

\* (base_date + timedelta(days=di) + timedelta(minutes=mins)).isoformat():
\* the fields of "YYYY-MM-DDTHH:MM:00"; base.tod is the minute of the day
\* that fromisoformat parsed (0 for a plain date)
IsoTimestamp(base, di, mins) ==
  LET total == base.tod + mins
      date  == AddDays([Y |-> base.Y, M |-> base.M, D |-> base.D],
                       di + (total \div 1440))
  IN  [Y |-> date.Y, M |-> date.M, D |-> date.D,
       h |-> (total % 1440) \div 60, mi |-> (total % 1440) % 60]

\* the value of an entry without start_ts / end_ts keys
NoTimestamp == [Y |-> 0, M |-> 0, D |-> 0, h |-> 0, mi |-> 0]

\* "if start_date:" - a missing, None or empty start_date is skipped
HasStartDate(av) == av.start_date.kind \notin {"absent"}

\* datetime.fromisoformat(start_date) raises ValueError
StartDateRaises(av) == av.start_date.kind = "bad"

\* entry = dict(t); entry["day"] = di; optional start_ts / end_ts
ResultEntry(t, di, av) ==
  [task_id           |-> t.task_id,
   day               |-> di,
   start_min         |-> t.start_min,
   end_min           |-> t.end_min,
   duration_min      |-> t.duration_min,
   split_recommended |-> t.split_recommended,
   has_ts            |-> HasStartDate(av),
   start_ts          |-> IF HasStartDate(av)
                           THEN IsoTimestamp(av.start_date, di, t.start_min)
                           ELSE NoTimestamp,
   end_ts            |-> IF HasStartDate(av)
                           THEN IsoTimestamp(av.start_date, di, t.end_min)
                           ELSE NoTimestamp]

RECURSIVE FlattenFrom(_, _, _)
\* "for di, d in enumerate(days): for t in d['tasks']: result.append(entry)"
FlattenFrom(days, p, av) ==
  IF p > Len(days) THEN <<>>
  ELSE [k \in 1..Len(days[p].tasks) |-> ResultEntry(days[p].tasks[k], p - 1, av)]
       \o FlattenFrom(days, p + 1, av)

Flatten(days, av) == FlattenFrom(days, 1, av)

\* ------------------------------------------------------------------------
\* The canonicalizer: result.sort(key=(day, start_min, str(task_id)))
\* ------------------------------------------------------------------------

\* key(r) < key(q) for the key (day, start_min, str(task_id))
ResultKeyLess(r, q) ==
  \/ r.day < q.day
  \/ r.day = q.day /\ r.start_min < q.start_min
  \/ r.day = q.day /\ r.start_min = q.start_min
       /\ StrLess(PyStr(r.task_id), PyStr(q.task_id))

RECURSIVE InsertResult(_, _)
InsertResult(sorted, x) ==
  IF sorted = <<>> THEN <<x>>
  ELSE IF ResultKeyLess(x, Head(sorted)) THEN <<x>> \o sorted
  ELSE <<Head(sorted)>> \o InsertResult(Tail(sorted), x)

\* the flattened list handed back as it is
Unsorted(s) == s

RECURSIVE SortResult(_)
\* list.sort: stable
SortResult(s) ==
  IF s = <<>> THEN <<>>
  ELSE InsertResult(SortResult(SubSeq(s, 1, Len(s) - 1)), s[Len(s)])

\* ------------------------------------------------------------------------
\* create_schedule as a function of its arguments
\* ------------------------------------------------------------------------

RECURSIVE PlaceAll(_, _, _, _)
\* the loop "for item in converted" started from the list days
PlaceAll(days, items, cap, block_max) ==
  IF items = <<>> THEN days
  ELSE PlaceAll(PlaceItem(days, Head(items), cap, block_max), Tail(items),
                cap, block_max)

\* the call raises: the configuration error, a duration that int()/float()
\* rejects, or a start_date that fromisoformat rejects
CreateScheduleRaises(ts, av, block_min, buf4) ==
  \/ NonPositiveCapacity(CapacityPerDay(av, buf4))
  \/ \E i \in 1..Len(ts) : ToMinutesRaises(ts[i])
  \/ StartDateRaises(av)

\* the list the call returns, where it returns
CreateSchedule(ts, av, block_min, block_max, buf4) ==
  LET cap       == CapacityPerDay(av, buf4)
      converted == SortConverted([i \in 1..Len(ts) |-> ConvertOne(ts[i], block_min)])
      days      == PlaceAll(<<>>, converted, cap, block_max)
  IN  SortResult(Flatten(days, av))

\* ------------------------------------------------------------------------
\* Inputs
\* ------------------------------------------------------------------------

IntId(n) == [kind |-> "int", n |-> n, s |-> <<>>]
StrId(s) == [kind |-> "str", n |-> 0, s |-> s]
NoId     == [kind |-> "none", n |-> 0, s |-> <<>>]

Absent == [kind |-> "absent", v2 |-> 0, v8 |-> 0]
Null   == [kind |-> "null", v2 |-> 0, v8 |-> 0]
Bad    == [kind |-> "bad", v2 |-> 0, v8 |-> 0]
\* estimate_minutes = m
Minutes(m) == [kind |-> "num", v2 |-> 2 * m, v8 |-> 0]
\* estimate_minutes = h2 / 2 (a float such as 20.5)
HalfMinutes(h2) == [kind |-> "num", v2 |-> h2, v8 |-> 0]
\* estimate_hours = e / 8
Hours8(e) == [kind |-> "num", v2 |-> 0, v8 |-> e]

Task(id, em, eh) == [id |-> id, em |-> em, eh |-> eh]

NoDate  == [kind |-> "absent", Y |-> 0, M |-> 0, D |-> 0, tod |-> 0]
BadDate == [kind |-> "bad", Y |-> 0, M |-> 0, D |-> 0, tod |-> 0]
IsoDate(y, m, d) == [kind |-> "iso", Y |-> y, M |-> m, D |-> d, tod |-> 0]

Avail(hours, start_date) == [hours |-> hours, start_date |-> start_date]

\* the strings "a", "b", "1", "long", "small"
StrA     == <<97>>
StrB     == <<98>>
StrOne   == <<49>>
StrLong  == <<108, 111, 110, 103>>
StrSmall == <<115, 109, 97, 108, 108>>

\* The calls that are explored: a configuration and the task records the
\* task list is drawn from (with repetition, in any order).
Scenarios ==
  { \* defaults of the tests: 4 h/day, 25 % buffer -> 180 min
    [av |-> Avail(Hours8(32), IsoDate(2025, 1, 1)),
     block_min |-> 25, block_max |-> 90, buf4 |-> 1,
     pool |-> { Task(IntId(1), Absent, Hours8(16)),
                Task(IntId(2), Absent, Hours8(16)),
                Task(IntId(3), Absent, Hours8(16)) }],
    \* hours_per_day missing -> 4 h; a task longer than the capacity
    [av |-> Avail(Absent, NoDate),
     block_min |-> 25, block_max |-> 90, buf4 |-> 1,
     pool |-> { Task(StrId(StrLong), Minutes(200), Absent),
                Task(StrId(StrSmall), Minutes(30), Absent),
                Task(IntId(10), Minutes(90), Hours8(8)),
                Task(IntId(9), Minutes(90), Null) }],
    \* 1 h/day, 25 % buffer -> 45 min; short, zero, negative, missing estimates
    [av |-> Avail(Hours8(8), IsoDate(2024, 12, 31)),
     block_min |-> 25, block_max |-> 90, buf4 |-> 1,
     pool |-> { Task(StrId(StrA), Minutes(20), Absent),
                Task(StrId(StrB), HalfMinutes(41), Absent),
                Task(IntId(3), Minutes(0), Absent),
                Task(IntId(4), Minutes(-5), Absent),
                Task(NoId, Null, Absent) }],
    \* ids of mixed types whose string forms collide or sort unlike numbers
    [av |-> Avail(Hours8(8), NoDate),
     block_min |-> 25, block_max |-> 90, buf4 |-> 1,
     pool |-> { Task(IntId(1), Minutes(20), Absent),
                Task(StrId(StrOne), Minutes(20), Absent),
                Task(IntId(10), Minutes(20), Absent),
                Task(IntId(9), Minutes(30), Absent) }],
    \* a negative block_min lets negative durations through
    [av |-> Avail(Hours8(8), NoDate),
     block_min |-> -10, block_max |-> 25, buf4 |-> 0,
     pool |-> { Task(IntId(1), Minutes(-3), Absent),
                Task(IntId(2), Minutes(-5), Absent),
                Task(IntId(3), Minutes(35), Absent),
                Task(IntId(4), Minutes(-20), Absent) }],
    \* block_min 0 and a capacity that rounds: 1/8 h -> 7.5 -> 8 min
    [av |-> Avail(Hours8(1), IsoDate(2024, 2, 28)),
     block_min |-> 0, block_max |-> 4, buf4 |-> 0,
     pool |-> { Task(IntId(1), Minutes(0), Absent),
                Task(IntId(2), Minutes(0), Absent),
                Task(IntId(3), Minutes(4), Absent),
                Task(IntId(4), Absent, Hours8(1)) }],
    \* both estimates, hours only (7.5 and 97.5 minutes), no estimate
    [av |-> Avail(Hours8(32), IsoDate(2025, 9, 1)),
     block_min |-> 25, block_max |-> 90, buf4 |-> 1,
     pool |-> { Task(IntId(1), Minutes(80), Hours8(16)),
                Task(IntId(2), Null, Hours8(13)),
                Task(IntId(3), Absent, Hours8(1)),
                Task(IntId(4), Absent, Absent) }],
    \* 24 h/day without buffer -> 1440 min: a day that ends at midnight
    [av |-> Avail(Hours8(192), IsoDate(2024, 2, 28)),
     block_min |-> 25, block_max |-> 90, buf4 |-> 0,
     pool |-> { Task(IntId(1), Minutes(1440), Absent),
                Task(IntId(2), Minutes(720), Absent),
                Task(IntId(3), Minutes(30), Absent),
                Task(IntId(4), Minutes(1500), Absent) }],
    \* 25 h/day -> 1500 min: a capacity longer than a calendar day
    [av |-> Avail(Hours8(200), IsoDate(2025, 12, 31)),
     block_min |-> 25, block_max |-> 90, buf4 |-> 0,
     pool |-> { Task(IntId(1), Minutes(1500), Absent),
                Task(IntId(2), Minutes(100), Absent) }],
    \* buffer_ratio 1.0 -> capacity 0
    [av |-> Avail(Hours8(8), IsoDate(2025, 1, 1)),
     block_min |-> 25, block_max |-> 90, buf4 |-> 4,
     pool |-> { Task(IntId(1), Absent, Hours8(8)),
                Task(IntId(2), Bad, Absent) }],
    \* buffer_ratio 1.25 -> negative capacity
    [av |-> Avail(Hours8(8), BadDate),
     block_min |-> 25, block_max |-> 90, buf4 |-> 5,
     pool |-> { Task(IntId(1), Absent, Hours8(8)),
                Task(IntId(2), Minutes(30), Absent) }],
    \* durations that int() / float() reject
    [av |-> Avail(Hours8(32), NoDate),
     block_min |-> 25, block_max |-> 90, buf4 |-> 1,
     pool |-> { Task(IntId(1), Bad, Hours8(8)),
                Task(IntId(2), Minutes(30), Bad),
                Task(IntId(3), Null, Bad) }],
    \* a start_date that fromisoformat rejects
    [av |-> Avail(Hours8(32), BadDate),
     block_min |-> 25, block_max |-> 90, buf4 |-> 1,
     pool |-> { Task(IntId(1), Minutes(30), Absent),
                Task(IntId(2), Minutes(200), Absent) }] }

\* task lists of at most MaxTasks records of a pool
TaskLists(pool) == UNION { [1..n -> pool] : n \in 0..MaxTasks }

\* ------------------------------------------------------------------------
\* State
\* ------------------------------------------------------------------------

VARIABLES
  tasks,            \* argument: the task records
  availability,     \* argument: hours_per_day and start_date
  block_min,        \* argument
  block_max,        \* argument
  buffer_ratio,     \* argument, in quarters
  pc,               \* position of the call: idle, convert, place, canon, done, raised
  err,              \* the exception of a raised call: none, capacity, value
  task_list,        \* local: copy of the task records
  capacity_per_day, \* local
  converted,        \* local
  days,             \* local: the day bins
  pos,              \* local: items of converted already placed
  result,           \* local
  ret,              \* the list handed back to the caller (<<>> until then)
  ref               \* what the caller saw of the previous call with these arguments

\* state of the push connectors (src/connectors)
VARIABLES
  c_google,   \* calendar_client._HAS_GOOGLEAPI, fixed when the module is imported
  c_fn,       \* the connector function that runs or ran last ("none" before any)
  c_pc,       \* idle, loop (inside the per-item loop), returned, raised
  c_items,    \* argument: payloads, events, schedule rows or created results
  c_dry,      \* argument dry_run
  c_creds,    \* argument credentials is not None (calendar)
  c_idx,      \* items of the loop already handled
  c_attempt,  \* local attempt of the running _request_with_retry
  c_results,  \* local results / out
  c_sent,     \* requests the call has issued (a repeated request counts once)
  c_ret,      \* value the last call returned: [count, list]
  c_wet,      \* apply_create has been called with dry_run=False
  c_max,      \* max_retries of the _request_with_retry calls of the call
  c_out       \* outcome of the last attempt: [outcome, id] ("none" before any)

\* state of partition_tasks_greedy (src/agent_controller/agent_controller.py)
VARIABLES
  p_tasks,    \* argument: the task records
  p_max,      \* argument max_hours, in eighths of an hour
  p_pc,       \* idle, loop, returned
  p_i,        \* tasks the loop has handled
  p_groups,   \* local groups
  p_current,  \* local current
  p_sum       \* local current_sum, in eighths of an hour

\* state of apply_plan (src/backend/main.py)
VARIABLES
  a_req,      \* the JSON body and whether the project exists
  a_pc,       \* idle, validate, fetch, write, respond, done
  a_payload,  \* local payload: the ApplyRequest with its defaults
  a_actions,  \* local actions
  a_writes,   \* local external_writes
  a_resp      \* the response

schedVars == <<tasks, availability, block_min, block_max, buffer_ratio, pc, err,
               task_list, capacity_per_day, converted, days, pos, result, ret, ref>>

connVars == <<c_google, c_fn, c_pc, c_items, c_dry, c_creds, c_idx, c_attempt,
              c_results, c_sent, c_ret, c_wet, c_max, c_out>>

partVars == <<p_tasks, p_max, p_pc, p_i, p_groups, p_current, p_sum>>

planVars == <<a_req, a_pc, a_payload, a_actions, a_writes, a_resp>>

vars == <<schedVars, connVars, partVars, planVars>>

\* no connector function has been called
ConnIdle ==
  /\ c_fn = "none"
  /\ c_pc = "idle"
  /\ c_items = <<>>
  /\ c_dry = TRUE
  /\ c_creds = FALSE
  /\ c_idx = 0
  /\ c_attempt = 0
  /\ c_results = <<>>
  /\ c_sent = {}
  /\ c_ret = [count |-> 0, list |-> <<>>]
  /\ c_wet = FALSE
  /\ c_max = 5   \* the default of max_retries
  /\ c_out = [outcome |-> "none", id |-> 0]

\* the ApplyRequest before any request: the defaults of models.py
NoPayload ==
  [dry_run |-> TRUE, confirm |-> FALSE, push_todoist |-> TRUE,
   push_calendar |-> TRUE, task_count |-> 0]

\* no response yet
NoResponse ==
  [status |-> 0, actions |-> <<>>, dry_run |-> TRUE, confirmed |-> FALSE,
   external_writes_performed |-> FALSE, task_count |-> 0]

\* create_schedule is not called
SchedIdle ==
  /\ tasks = <<>>
  /\ availability = Avail(Absent, NoDate)
  /\ block_min = 25
  /\ block_max = 90
  /\ buffer_ratio = 1
  /\ pc = "idle"
  /\ err = "none"
  /\ task_list = <<>>
  /\ capacity_per_day = 0
  /\ converted = <<>>
  /\ days = <<>>
  /\ pos = 0
  /\ result = <<>>
  /\ ret = <<>>
  /\ ref = [valid |-> FALSE, raised |-> FALSE, out |-> <<>>]

\* partition_tasks_greedy is not called
PartIdle ==
  /\ p_tasks = <<>>
  /\ p_max = 0
  /\ p_pc = "idle"
  /\ p_i = 0
  /\ p_groups = <<>>
  /\ p_current = <<>>
  /\ p_sum = 0

\* apply_plan is not called
PlanIdle ==
  /\ a_req = [valid |-> TRUE, found |-> TRUE, dry_run |-> "absent",
              confirm |-> "absent", push_todoist |-> "absent",
              push_calendar |-> "absent", tasks |-> 0]
  /\ a_pc = "idle"
  /\ a_payload = NoPayload
  /\ a_actions = <<>>
  /\ a_writes = FALSE
  /\ a_resp = NoResponse

args == <<tasks, availability, block_min, block_max, buffer_ratio>>

Init ==
  /\ \E sc \in Scenarios :
       /\ availability = sc.av
       /\ block_min = sc.block_min
       /\ block_max = sc.block_max
       /\ buffer_ratio = sc.buf4
       /\ tasks \in TaskLists(sc.pool)
  /\ pc = "idle"
  /\ err = "none"
  /\ task_list = <<>>
  /\ capacity_per_day = 0
  /\ converted = <<>>
  /\ days = <<>>
  /\ pos = 0
  /\ result = <<>>
  /\ ret = <<>>
  /\ ref = [valid |-> FALSE, raised |-> FALSE, out |-> <<>>]
  /\ c_google = TRUE
  /\ ConnIdle
  /\ PartIdle
  /\ PlanIdle

\* lines 58-66: copy the tasks, derive the capacity, raise if it is <= 0
Enter ==
  /\ pc = "idle"
  /\ task_list' = tasks
  /\ capacity_per_day' = CapacityPerDay(availability, buffer_ratio)
  /\ ret' = <<>>
  /\ IF NonPositiveCapacity(capacity_per_day')
       THEN /\ pc' = "raised"
            /\ err' = "capacity"
            /\ UNCHANGED converted
       ELSE /\ pc' = "convert"
            /\ err' = "none"
            /\ converted' = <<>>
  /\ UNCHANGED <<args, days, pos, result, ref>>
  /\ UNCHANGED <<connVars, partVars, planVars>>

\* lines 67-72: one iteration of "for t in task_list"
Convert ==
  /\ pc = "convert"
  /\ Len(converted) < Len(task_list)
  /\ LET t == task_list[Len(converted) + 1]
     IN  IF ToMinutesRaises(t)
           THEN /\ pc' = "raised"
                /\ err' = "value"
                /\ UNCHANGED converted
           ELSE /\ converted' = Append(converted, ConvertOne(t, block_min))
                /\ UNCHANGED <<pc, err>>
  /\ UNCHANGED <<args, task_list, capacity_per_day, days, pos, result, ret, ref>>
  /\ UNCHANGED <<connVars, partVars, planVars>>

\* lines 75-78: sort converted, start with no days; converted is a list of
\* the call, so the caller's task list keeps its order
Sort ==
  /\ pc = "convert"
  /\ Len(converted) = Len(task_list)
  /\ converted' = SortConverted(converted)
  /\ tasks' = CallerTasks(tasks, converted')
  /\ days' = FreshDays(days)
  /\ pos' = 0
  /\ pc' = "place"
  /\ UNCHANGED <<availability, block_min, block_max, buffer_ratio, err,
                 task_list, capacity_per_day, result, ret, ref>>
  /\ UNCHANGED <<connVars, partVars, planVars>>

\* lines 81-106: one iteration of "for item in converted"
Place ==
  /\ pc = "place"
  /\ pos < Len(converted)
  /\ days' = PlaceItem(days, converted[pos + 1], capacity_per_day, block_max)
  /\ pos' = pos + 1
  /\ UNCHANGED <<args, pc, err, task_list, capacity_per_day, converted, result, ret, ref>>
  /\ UNCHANGED <<connVars, partVars, planVars>>

\* lines 109-127: parse start_date, flatten the days into result
Project ==
  /\ pc = "place"
  /\ pos = Len(converted)
  /\ IF HasStartDate(availability) /\ StartDateRaises(availability)
       THEN /\ pc' = "raised"
            /\ err' = "value"
            /\ UNCHANGED result
       ELSE /\ result' = Flatten(days, availability)
            /\ pc' = "canon"
            /\ UNCHANGED err
  /\ UNCHANGED <<args, task_list, capacity_per_day, converted, days, pos, ret, ref>>
  /\ UNCHANGED <<connVars, partVars, planVars>>

\* lines 130-131: sort result and return it
Return ==
  /\ pc = "canon"
  /\ result' = SortResult(result)
  /\ ret' = result'
  /\ pc' = "done"
  /\ UNCHANGED <<args, err, task_list, capacity_per_day, converted, days, pos, ref>>
  /\ UNCHANGED <<connVars, partVars, planVars>>

\* the caller notes the outcome and calls again with the same arguments
Reinvoke ==
  /\ pc \in {"done", "raised"}
  /\ ref' = [valid |-> TRUE, raised |-> pc = "raised", out |-> ret]
  /\ pc' = "idle"
  /\ UNCHANGED <<args, err, task_list, capacity_per_day, converted, days, pos, result, ret>>
  /\ UNCHANGED <<connVars, partVars, planVars>>

Next == Enter \/ Convert \/ Sort \/ Place \/ Project \/ Return \/ Reinvoke

Spec == Init /\ [][Next]_vars

\* ------------------------------------------------------------------------
\* The push connectors: src/connectors/todoist_client.py, calendar_client.py
\* ------------------------------------------------------------------------

\* longest list handed to a connector function
MaxItems == 2

\* max_retries of todoist_client._request_with_retry
MaxRetries == 5

\* max_retries of calendar_client._request_with_retry
CalMaxRetries == 5

\* the strings "Task", " ", "UTC", "Do X", "Notes", "None",
\* "2025-01-01T09:00:00Z" and "2025-01-01T10:00:00Z"
StrTask  == <<84, 97, 115, 107>>
StrSpace == <<32>>
StrUTC   == <<85, 84, 67>>
StrDoX   == <<68, 111, 32, 88>>
StrNotes == <<78, 111, 116, 101, 115>>
StrStart == <<50, 48, 50, 53, 45, 48, 49, 45, 48, 49, 84, 48, 57, 58, 48, 48, 58, 48, 48, 90>>
StrEnd   == <<50, 48, 50, 53, 45, 48, 49, 45, 48, 49, 84, 49, 48, 58, 48, 48, 58, 48, 48, 90>>

\* a value that Python takes for false in "x or y": None, 0, ""
FalsyId(id) ==
  \/ id.kind = "none"
  \/ id.kind = "int" /\ id.n = 0
  \/ id.kind = "str" /\ id.s = <<>>

RECURSIVE BeforeT(_)
\* s.split("T")[0]
BeforeT(s) ==
  IF s = <<>> \/ Head(s) = 84 THEN <<>> ELSE <<Head(s)>> \o BeforeT(Tail(s))

RECURSIVE RStrip(_)
RStrip(s) ==
  IF s # <<>> /\ s[Len(s)] = 32 THEN RStrip(SubSeq(s, 1, Len(s) - 1)) ELSE s

RECURSIVE LStrip(_)
LStrip(s) == IF s # <<>> /\ Head(s) = 32 THEN LStrip(Tail(s)) ELSE s

\* s.strip()
Strip(s) == LStrip(RStrip(s))

\* a schedule row; the empty string stands for a missing (or empty) field
Row(task_id, title, description, start_ts, end_ts) ==
  [task_id |-> task_id, title |-> title, content |-> <<>>,
   description |-> description, notes |-> <<>>,
   start_ts |-> start_ts, end_ts |-> end_ts, time_zone |-> <<>>]

\* the rows the payload builders are given
ScheduleRows ==
  { Row(IntId(1), StrDoX, <<>>, StrStart, StrEnd),
    Row(IntId(2), <<>>, StrNotes, <<>>, <<>>),
    Row(NoId, <<>>, <<>>, StrStart, <<>>) }

\* a or b on strings
OrStr(a, b) == IF a # <<>> THEN a ELSE b

\* the "due" of a payload without start timestamp (key absent)
NoDue == [date |-> <<>>, date_time |-> <<>>, time_zone |-> <<>>]

\* one payload of create_todoist_payloads; description <<>> = key absent
TodoistPayload(item) ==
  [content     |-> OrStr(item.title,
                     OrStr(item.content,
                       Strip(StrTask \o StrSpace \o
                             (IF FalsyId(item.task_id) THEN <<>>
                              ELSE PyStr(item.task_id))))),
   description |-> OrStr(item.description, item.notes),
   due         |-> IF item.start_ts # <<>>
                     THEN [date |-> BeforeT(item.start_ts),
                           date_time |-> item.start_ts,
                           time_zone |-> StrUTC]
                     ELSE NoDue,
   meta        |-> item.task_id]

\* create_todoist_payloads(schedule)
CreateTodoistPayloads(schedule) ==
  [i \in 1..Len(schedule) |-> TodoistPayload(schedule[i])]

\* one event of make_event_objects; <<>> = None
EventObject(row) ==
  [summary     |-> OrStr(row.title, StrTask \o StrSpace \o PyStr(row.task_id)),
   description |-> OrStr(row.description, row.notes),
   start       |-> [dateTime |-> row.start_ts,
                    timeZone |-> OrStr(row.time_zone, StrUTC)],
   end         |-> [dateTime |-> row.end_ts,
                    timeZone |-> OrStr(row.time_zone, StrUTC)]]

\* make_event_objects(schedule)
MakeEventObjects(schedule) ==
  [i \in 1..Len(schedule) |-> EventObject(schedule[i])]

\* lists of at most MaxItems elements of a set
ListsOf(S) == UNION { [1..n -> S] : n \in 0..MaxItems }

\* pl[:5]
FirstFive(pl) == IF Len(pl) <= 5 THEN pl ELSE SubSeq(pl, 1, 5)

\* what a connector call hands back: a list, or the summary of a dry run
\* (count and sample)
Returning(list) == [count |-> Len(list), list |-> list]
Summary(pl)     == [count |-> Len(pl), list |-> FirstFive(pl)]

\* responses: kind "missing" = no "response" key, "none" = None, "json" = the
\* parsed body (id 0 = a body without "id"), "error" = the error body of a
\* client error, "max_retries" = {"error": "max_retries_exceeded"},
\* "exception" = the exception the Google client raised
Resp(kind, id) == [kind |-> kind, id |-> id]

\* one element of a returned list.  apply_create / apply_create_events use
\* success, reason ("" = key absent), response and item (the payload or
\* event, 0 = key absent); undo_created uses id (0 = None), success, reason
\* (its "error" key), response and item (the position of the result it was
\* given, its "orig" key).
Result(success, reason, response, item, id) ==
  [success |-> success, reason |-> reason, response |-> response,
   item |-> item, id |-> id]

\* the list a dry run returns, in the order of the input
DryRunResults(items) ==
  [i \in 1..Len(items) |->
     Result(FALSE, "dry_run", Resp("missing", 0), items[i], 0)]

\* a dry_run flag that is ignored
NeverDry(dry_run) == FALSE

\* "if dry_run:" of apply_create
TodoistDry(dry_run) == dry_run

\* "if dry_run:" of apply_create_events
CalendarDry(dry_run) == dry_run

\* payloads and events the callers hand over
Payloads == { TodoistPayload(r) : r \in ScheduleRows \ {Row(NoId, <<>>, <<>>, StrStart, <<>>)} }
Events   == { EventObject(r) : r \in ScheduleRows \ {Row(NoId, <<>>, <<>>, StrStart, <<>>)} }

\* ids the Todoist API answers with (0: a body without id)
ResponseIds == {0, 123}

\* results a caller can hand to undo_created without having called
\* apply_create: a dry-run result, a success with an id, a success without body
ForeignResults ==
  { Result(FALSE, "dry_run", Resp("missing", 0), 0, 0),
    Result(TRUE, "", Resp("json", 123), 0, 0),
    Result(TRUE, "", Resp("none", 0), 0, 0) }

\* task_id = resp.get("id") if isinstance(resp, dict) else None,
\* with resp = r.get("response") or {}
TaskIdOf(r) == IF r.response.kind \in {"json", "error"} THEN r.response.id ELSE 0

\* an undo that never skips a result
NeverWithoutId(r) == FALSE

\* "if not task_id:" of undo_created
WithoutId(r) == TaskIdOf(r) = 0

\* outcomes of one requests.request of the Todoist client
TodoistOutcomes ==
  {"exception", "json", "bad_json", "no_content", "rate_limited",
   "server_error", "client_error"}

\* the attempt is counted and the loop goes on
TodoistRetryable(o) == o \in {"exception", "rate_limited", "server_error"}

\* an answer that counts an unparsable body as a failure
AnswerNeedsJson(o, id) ==
  CASE o = "json"         -> [ok |-> TRUE, resp |-> Resp("json", id)]
    [] o = "no_content"   -> [ok |-> TRUE, resp |-> Resp("none", 0)]
    [] o = "bad_json"     -> [ok |-> FALSE, resp |-> Resp("error", 0)]
    [] o = "client_error" -> [ok |-> FALSE, resp |-> Resp("error", 0)]
    [] OTHER              -> [ok |-> FALSE, resp |-> Resp("max_retries", 0)]

\* (success, response) that _request_with_retry returns on a final outcome
TodoistAnswer(o, id) ==
  CASE o = "json"         -> [ok |-> TRUE, resp |-> Resp("json", id)]
    [] o = "bad_json"     -> [ok |-> TRUE, resp |-> Resp("none", 0)]
    [] o = "no_content"   -> [ok |-> TRUE, resp |-> Resp("none", 0)]
    [] o = "client_error" -> [ok |-> FALSE, resp |-> Resp("error", 0)]
    [] OTHER              -> [ok |-> FALSE, resp |-> Resp("max_retries", 0)]

\* outcomes of one call of the Google client
CalendarOutcomes == {"ok", "http_error", "other_exception"}

\* without the Google library HttpError is Exception (line 33), so every
\* exception is an HttpError
CalendarOutcomesOf(google) ==
  IF google THEN CalendarOutcomes ELSE CalendarOutcomes \ {"other_exception"}

CalendarAnswer(o) ==
  CASE o = "ok"              -> [ok |-> TRUE, resp |-> Resp("json", 123)]
    [] o = "other_exception" -> [ok |-> FALSE, resp |-> Resp("exception", 0)]
    [] OTHER                 -> [ok |-> FALSE, resp |-> Resp("max_retries", 0)]

\* no attempt has been made
NoOutcome == [outcome |-> "none", id |-> 0]

\* a connector function can be called
CanCall == c_pc \in {"idle", "returned", "raised"}

\* a function that only computes: it returns at once and sends nothing
\* (c_dry and c_creds hold the defaults when the function has no such
\* parameter)
Computes(fn, items, value) ==
  /\ c_fn' = fn
  /\ c_items' = items
  /\ c_ret' = value
  /\ c_pc' = "returned"
  /\ c_idx' = 0
  /\ c_attempt' = 0
  /\ c_results' = <<>>
  /\ c_sent' = {}
  /\ c_dry' = TRUE
  /\ c_creds' = FALSE
  /\ c_max' = MaxRetries
  /\ c_out' = NoOutcome
  /\ UNCHANGED <<c_google, c_wet>>
  /\ UNCHANGED <<schedVars, partVars, planVars>>

\* lines 48-88 of todoist_client.py
CallCreateTodoistPayloads ==
  /\ CanCall
  /\ \E rows \in ListsOf(ScheduleRows) :
       Computes("create_todoist_payloads", rows, Returning(CreateTodoistPayloads(rows)))

\* lines 91-102 of todoist_client.py
CallDryRunCreate ==
  /\ CanCall
  /\ \E pl \in ListsOf(Payloads) :
       Computes("dry_run_create", pl, Summary(pl))

\* lines 37-56 of calendar_client.py
CallMakeEventObjects ==
  /\ CanCall
  /\ \E rows \in ListsOf(ScheduleRows) :
       Computes("make_event_objects", rows, Returning(MakeEventObjects(rows)))

\* lines 59-63 of calendar_client.py
CallDryRunCreateEvents ==
  /\ CanCall
  /\ \E ev \in ListsOf(Events) :
       Computes("dry_run_create_events", ev, Summary(ev))

\* the call starts its per-item loop, or returns at once for an empty list
StartLoop(items, max_retries) ==
  /\ c_max' = max_retries
  /\ c_out' = NoOutcome
  /\ c_idx' = 0
  /\ c_attempt' = 0
  /\ c_results' = <<>>
  /\ c_sent' = {}
  /\ IF items = <<>>
       THEN c_pc' = "returned" /\ c_ret' = Returning(<<>>)
       ELSE c_pc' = "loop" /\ c_ret' = Returning(<<>>)

\* the call returns the list at once
ReturnAtOnce(list) ==
  /\ c_max' = MaxRetries
  /\ c_out' = NoOutcome
  /\ c_idx' = 0
  /\ c_attempt' = 0
  /\ c_results' = list
  /\ c_sent' = {}
  /\ c_pc' = "returned"
  /\ c_ret' = Returning(list)

\* lines 198-204 of todoist_client.py: apply_create up to its loop
CallApplyCreate ==
  /\ CanCall
  /\ \E pl \in ListsOf(Payloads), dry \in BOOLEAN :
       /\ c_fn' = "apply_create"
       /\ c_items' = pl
       /\ c_dry' = dry
       /\ c_creds' = FALSE
       /\ c_wet' = (c_wet \/ ~dry)
       /\ IF TodoistDry(dry) THEN ReturnAtOnce(DryRunResults(pl)) ELSE StartLoop(pl, MaxRetries)
  /\ UNCHANGED c_google
  /\ UNCHANGED <<schedVars, partVars, planVars>>

\* lines 227-229 of todoist_client.py: undo_created up to its loop.  The
\* caller hands over results of the apply_create that has just returned, or
\* results it has from elsewhere.
CallUndoCreated ==
  /\ CanCall
  /\ \E own \in BOOLEAN :
       /\ own => (c_fn = "apply_create" /\ c_pc = "returned")
       /\ \E created \in (IF own THEN {c_ret.list} ELSE ListsOf(ForeignResults)) :
            /\ c_items' = created
            /\ StartLoop(created, MaxRetries)
  /\ c_fn' = "undo_created"
  /\ c_dry' = TRUE
  /\ c_creds' = FALSE
  /\ UNCHANGED <<c_google, c_wet>>
  /\ UNCHANGED <<schedVars, partVars, planVars>>

\* the two _request_with_retry, when they are called on their own
RetryFunctions == {"todoist._request_with_retry", "calendar._request_with_retry"}

\* the loop of the running call has handled one more item with result r;
\* attempt is the local of the _request_with_retry that has returned, which
\* is kept for a call of _request_with_retry on its own and starts again
\* at 0 in the loops of the other functions
ItemDone(r, attempt) ==
  /\ c_results' = Append(c_results, r)
  /\ c_idx' = c_idx + 1
  /\ c_attempt' = (IF c_fn \in RetryFunctions THEN attempt ELSE 0)
  /\ IF c_idx + 1 = Len(c_items)
       THEN c_pc' = "returned" /\ c_ret' = Returning(c_results')
       ELSE UNCHANGED <<c_pc, c_ret>>

\* lines 230-236 of todoist_client.py: a result without id is not deleted
UndoSkip ==
  /\ c_pc = "loop"
  /\ c_fn = "undo_created"
  /\ WithoutId(c_items[c_idx + 1])
  /\ ItemDone(Result(FALSE, "no id in response", Resp("missing", 0), c_idx + 1, 0), 0)
  /\ UNCHANGED <<c_google, c_fn, c_items, c_dry, c_creds, c_sent, c_wet,
                 c_max, c_out>>
  /\ UNCHANGED <<schedVars, partVars, planVars>>

\* the request of the item at hand: POST of the payload, DELETE of the id
TodoistRequest ==
  IF c_fn = "undo_created"
    THEN [method |-> "DELETE", target |-> TaskIdOf(c_items[c_idx + 1])]
    ELSE [method |-> "POST", target |-> c_idx + 1]

\* the result the loop appends for the answer a of _request_with_retry
TodoistResult(a) ==
  IF c_fn = "apply_create"
    THEN Result(a.ok, "", a.resp, c_items[c_idx + 1], 0)
  ELSE IF c_fn = "undo_created"
    THEN Result(a.ok, "", a.resp, 0, TaskIdOf(c_items[c_idx + 1]))
  ELSE Result(a.ok, "", a.resp, 0, 0)

\* a loop that allows one attempt more: "while attempt <= max_retries"
LoopsOnceMore(attempt, max_retries) == attempt <= max_retries

\* "while attempt < max_retries"
LoopsAgain(attempt, max_retries) == attempt < max_retries

\* lines 118-173 of todoist_client.py: one pass of the while loop of
\* _request_with_retry (one request), and, when it ends the call of
\* _request_with_retry, lines 209-212 / 239 of the caller's loop
TodoistAttempt ==
  /\ c_pc = "loop"
  /\ c_fn \in {"apply_create", "undo_created", "todoist._request_with_retry"}
  /\ c_fn = "undo_created" => ~WithoutId(c_items[c_idx + 1])
  /\ LoopsAgain(c_attempt, c_max)
  /\ c_sent' = c_sent \cup {TodoistRequest}
  /\ \E o \in TodoistOutcomes, id \in ResponseIds :
       /\ o # "json" => id = 0
       /\ c_out' = [outcome |-> o, id |-> id]
       /\ IF TodoistRetryable(o) /\ LoopsAgain(c_attempt + 1, c_max)
            THEN /\ c_attempt' = c_attempt + 1
                 /\ UNCHANGED <<c_pc, c_idx, c_results, c_ret>>
            ELSE ItemDone(TodoistResult(TodoistAnswer(o, id)),
                          IF TodoistRetryable(o) THEN c_attempt + 1 ELSE c_attempt)
  /\ UNCHANGED <<c_google, c_fn, c_items, c_dry, c_creds, c_wet, c_max>>
  /\ UNCHANGED <<schedVars, partVars, planVars>>

\* lines 107-118 of calendar_client.py: apply_create_events up to its loop
CallApplyCreateEvents ==
  /\ CanCall
  /\ \E ev \in ListsOf(Events), dry \in BOOLEAN, creds \in BOOLEAN :
       /\ c_fn' = "apply_create_events"
       /\ c_items' = ev
       /\ c_dry' = dry
       /\ c_creds' = creds
       /\ IF CalendarDry(dry) THEN ReturnAtOnce(DryRunResults(ev))
          ELSE IF ~c_google \/ ~creds
            THEN /\ c_pc' = "raised"
                 /\ c_ret' = Returning(<<>>)
                 /\ c_idx' = 0
                 /\ c_attempt' = 0
                 /\ c_results' = <<>>
                 /\ c_sent' = {}
                 /\ c_max' = CalMaxRetries
                 /\ c_out' = NoOutcome
          ELSE StartLoop(ev, CalMaxRetries)
  /\ UNCHANGED <<c_google, c_wet>>
  /\ UNCHANGED <<schedVars, partVars, planVars>>

\* lines 70-82 of calendar_client.py: one pass of the while loop of
\* _request_with_retry (one insert().execute()), and, when it ends the call,
\* lines 125-128 of the caller's loop
CalendarAttempt ==
  /\ c_pc = "loop"
  /\ c_fn \in {"apply_create_events", "calendar._request_with_retry"}
  /\ c_attempt < c_max
  /\ c_sent' = c_sent \cup {[method |-> "INSERT", target |-> c_idx + 1]}
  /\ \E o \in CalendarOutcomesOf(c_google) :
       /\ c_out' = [outcome |-> o, id |-> IF o = "ok" THEN 123 ELSE 0]
       /\ IF o = "http_error" /\ c_attempt + 1 < c_max
            THEN /\ c_attempt' = c_attempt + 1
                 /\ UNCHANGED <<c_pc, c_idx, c_results, c_ret>>
            ELSE LET a == CalendarAnswer(o)
                 IN  ItemDone(Result(a.ok, "", a.resp, 0, 0),
                              IF o = "http_error" THEN c_attempt + 1 ELSE c_attempt)
  /\ UNCHANGED <<c_google, c_fn, c_items, c_dry, c_creds, c_wet, c_max>>
  /\ UNCHANGED <<schedVars, partVars, planVars>>

\* values of max_retries a caller of _request_with_retry passes
MaxRetriesChoices == {0, 1, 3, MaxRetries}

\* the (success, response) of a while loop that is never entered (line 173)
NoAttemptLeft == Result(FALSE, "", Resp("max_retries", 0), 0, 0)

\* a call of one of the two _request_with_retry up to its first attempt;
\* c_items holds the one request, or function, the call is given
RequestWithRetry(fn) ==
  /\ c_fn' = fn
  /\ c_items' = <<fn>>
  /\ c_dry' = FALSE
  /\ c_creds' = FALSE
  /\ c_idx' = 0
  /\ c_attempt' = 0
  /\ c_sent' = {}
  /\ c_out' = NoOutcome
  /\ \E max_retries \in MaxRetriesChoices :
       /\ c_max' = max_retries
       /\ IF LoopsAgain(0, max_retries)
            THEN /\ c_pc' = "loop"
                 /\ c_results' = <<>>
                 /\ c_ret' = Returning(<<>>)
            ELSE /\ c_pc' = "returned"
                 /\ c_results' = <<NoAttemptLeft>>
                 /\ c_ret' = Returning(<<NoAttemptLeft>>)
  /\ UNCHANGED <<c_google, c_wet>>
  /\ UNCHANGED <<schedVars, partVars, planVars>>

\* lines 105-118 of todoist_client.py
CallTodoistRequestWithRetry ==
  /\ CanCall
  /\ RequestWithRetry("todoist._request_with_retry")

\* lines 66-70 of calendar_client.py
CallCalendarRequestWithRetry ==
  /\ CanCall
  /\ RequestWithRetry("calendar._request_with_retry")

\* the connectors before any call; the scheduler is not called
ConnInit ==
  /\ SchedIdle
  /\ PartIdle
  /\ PlanIdle
  /\ c_google \in BOOLEAN
  /\ ConnIdle

ConnNext ==
  \/ CallCreateTodoistPayloads
  \/ CallDryRunCreate
  \/ CallApplyCreate
  \/ CallUndoCreated
  \/ UndoSkip
  \/ TodoistAttempt
  \/ CallMakeEventObjects
  \/ CallDryRunCreateEvents
  \/ CallApplyCreateEvents
  \/ CalendarAttempt
  \/ CallTodoistRequestWithRetry
  \/ CallCalendarRequestWithRetry

ConnSpec == ConnInit /\ [][ConnNext]_vars

\* ------------------------------------------------------------------------
\* partition_tasks_greedy: src/agent_controller/agent_controller.py
\* ------------------------------------------------------------------------

\* float(t.get("estimate_hours") or 1.0), in eighths of an hour
EstimateHours8(t) ==
  IF t.eh.kind \in {"absent", "null"} \/ t.eh.v8 = 0 THEN 8 ELSE t.eh.v8

\* the task records the lists are drawn from: no estimate, 0, 0.5 h, 2 h, 5 h
PartitionPool ==
  { Task(IntId(1), Absent, Absent),
    Task(IntId(2), Absent, Hours8(0)),
    Task(IntId(3), Absent, Hours8(4)),
    Task(IntId(4), Absent, Hours8(16)),
    Task(IntId(5), Absent, Hours8(40)) }

\* values of max_hours: 1 h, 2 h, 4 h
MaxHoursChoices == {8, 16, 32}

\* lines 338-340: the call has set up its locals
PartInit ==
  /\ SchedIdle
  /\ c_google = TRUE
  /\ ConnIdle
  /\ PlanIdle
  /\ p_tasks \in TaskLists(PartitionPool)
  /\ p_max \in MaxHoursChoices
  /\ p_pc = "loop"
  /\ p_i = 0
  /\ p_groups = <<>>
  /\ p_current = <<>>
  /\ p_sum = 0

\* "if current and current_sum + est > max_hours"
ClosesGroup(current, current_sum, est, max_hours) ==
  current # <<>> /\ current_sum + est > max_hours

\* lines 341-349: one iteration of "for t in tasks"
PartitionStep ==
  /\ p_pc = "loop"
  /\ p_i < Len(p_tasks)
  /\ LET t   == p_tasks[p_i + 1]
         est == EstimateHours8(t)
     IN  IF ClosesGroup(p_current, p_sum, est, p_max)
           THEN /\ p_groups' = Append(p_groups, p_current)
                /\ p_current' = <<t>>
                /\ p_sum' = est
           ELSE /\ p_current' = Append(p_current, t)
                /\ p_sum' = p_sum + est
                /\ UNCHANGED p_groups
  /\ p_i' = p_i + 1
  /\ UNCHANGED <<p_tasks, p_max, p_pc>>
  /\ UNCHANGED <<schedVars, connVars, planVars>>

\* lines 350-352: the last group is added if it is not empty
PartitionReturn ==
  /\ p_pc = "loop"
  /\ p_i = Len(p_tasks)
  /\ p_groups' = (IF p_current # <<>> THEN Append(p_groups, p_current) ELSE p_groups)
  /\ p_pc' = "returned"
  /\ UNCHANGED <<p_tasks, p_max, p_i, p_current, p_sum>>
  /\ UNCHANGED <<schedVars, connVars, planVars>>

PartNext == PartitionStep \/ PartitionReturn

PartSpec == PartInit /\ [][PartNext]_vars

\* ------------------------------------------------------------------------
\* apply_plan: src/backend/main.py, src/backend/models.py
\* ------------------------------------------------------------------------

\* the strings "DRY-RUN: ", "Would create ", " Todoist tasks" and
\* "Would create calendar events (1 per task)"
StrDryRun        == <<68, 82, 89, 45, 82, 85, 78, 58, 32>>
StrWouldCreate   == <<87, 111, 117, 108, 100, 32, 99, 114, 101, 97, 116, 101, 32>>
StrTodoistTasks  == <<32, 84, 111, 100, 111, 105, 115, 116, 32, 116, 97, 115, 107, 115>>
StrCalendarEvents == <<87, 111, 117, 108, 100, 32, 99, 114, 101, 97, 116, 101, 32, 99, 97, 108, 101, 110, 100, 97, 114, 32, 101, 118, 101, 110, 116, 115, 32, 40, 49, 32, 112, 101, 114, 32, 116, 97, 115, 107, 41>>

\* a field of the JSON body that is a boolean or missing
JsonBooleans == {"absent", "true", "false"}

\* the value pydantic gives a boolean field with a default
FieldOr(raw, default) == IF raw = "absent" THEN default ELSE raw = "true"

\* most tasks in a request
MaxPlanTasks == 2

\* the requests: valid = ApplyRequest(**data) accepts the body,
\* found = db.fetch_project finds the project
PlanRequests ==
  [valid : BOOLEAN, found : BOOLEAN, dry_run : JsonBooleans,
   confirm : JsonBooleans, push_todoist : JsonBooleans,
   push_calendar : JsonBooleans, tasks : 0..MaxPlanTasks]

ApplyInit ==
  /\ SchedIdle
  /\ c_google = TRUE
  /\ ConnIdle
  /\ PartIdle
  /\ a_req \in PlanRequests
  /\ a_pc = "validate"
  /\ a_payload = NoPayload
  /\ a_actions = <<>>
  /\ a_writes = FALSE
  /\ a_resp = NoResponse

\* ErrorResponse with a status code
ErrorResponse(status) == [NoResponse EXCEPT !.status = status]

\* lines 179-183: parse the body into an ApplyRequest, 400 if it is rejected
PlanValidate ==
  /\ a_pc = "validate"
  /\ IF a_req.valid
       THEN /\ a_payload' =
                 [dry_run       |-> FieldOr(a_req.dry_run, TRUE),
                  confirm       |-> FieldOr(a_req.confirm, FALSE),
                  push_todoist  |-> FieldOr(a_req.push_todoist, TRUE),
                  push_calendar |-> FieldOr(a_req.push_calendar, TRUE),
                  task_count    |-> a_req.tasks]
            /\ a_pc' = "fetch"
            /\ UNCHANGED a_resp
       ELSE /\ a_resp' = ErrorResponse(400)
            /\ a_pc' = "done"
            /\ UNCHANGED a_payload
  /\ UNCHANGED <<a_req, a_actions, a_writes>>
  /\ UNCHANGED <<schedVars, connVars, partVars>>

\* lines 185-187: 404 if the project does not exist
PlanFetch ==
  /\ a_pc = "fetch"
  /\ IF a_req.found
       THEN a_pc' = "write" /\ UNCHANGED a_resp
       ELSE a_pc' = "done" /\ a_resp' = ErrorResponse(404)
  /\ UNCHANGED <<a_req, a_payload, a_actions, a_writes>>
  /\ UNCHANGED <<schedVars, connVars, partVars>>

\* perform_external_writes(tasks, do_todoist, do_calendar), lines 164-174
PerformExternalWrites(n, do_todoist, do_calendar) ==
  (IF do_todoist THEN <<StrWouldCreate \o IntStr(n) \o StrTodoistTasks>> ELSE <<>>)
    \o (IF do_calendar THEN <<StrCalendarEvents>> ELSE <<>>)

\* [f"DRY-RUN: {a}" for a in actions]
DryRunPrefixed(actions) ==
  [i \in 1..Len(actions) |-> StrDryRun \o actions[i]]

\* a test that does not ask for the confirmation
WritesUnconfirmed(dry_run, confirm) == ~dry_run

\* "if not payload.dry_run and payload.confirm"
WritesConfirmed(dry_run, confirm) == ~dry_run /\ confirm

\* lines 189-200
PlanWrite ==
  /\ a_pc = "write"
  /\ LET actions == PerformExternalWrites(a_payload.task_count,
                      a_payload.push_todoist, a_payload.push_calendar)
     IN  IF WritesConfirmed(a_payload.dry_run, a_payload.confirm)
           THEN a_actions' = actions /\ a_writes' = TRUE
           ELSE a_actions' = DryRunPrefixed(actions) /\ a_writes' = FALSE
  /\ a_pc' = "respond"
  /\ UNCHANGED <<a_req, a_payload, a_resp>>
  /\ UNCHANGED <<schedVars, connVars, partVars>>

\* lines 202-210: the ApplyResponse
PlanRespond ==
  /\ a_pc = "respond"
  /\ a_resp' = [status                    |-> 200,
                actions                   |-> a_actions,
                dry_run                   |-> a_payload.dry_run,
                confirmed                 |-> a_payload.confirm,
                external_writes_performed |-> a_writes,
                task_count                |-> a_payload.task_count]
  /\ a_pc' = "done"
  /\ UNCHANGED <<a_req, a_payload, a_actions, a_writes>>
  /\ UNCHANGED <<schedVars, connVars, partVars>>

ApplyNext == PlanValidate \/ PlanFetch \/ PlanWrite \/ PlanRespond

ApplySpec == ApplyInit /\ [][ApplyNext]_vars

\* ------------------------------------------------------------------------
\* Vocabulary of the properties
\* ------------------------------------------------------------------------

\* positions of the entries of day d in a returned list
DayEntries(r, d) == {k \in 1..Len(r) : r[k].day = d}

RECURSIVE LoadUpTo(_, _, _)
LoadUpTo(r, d, n) ==
  IF n = 0 THEN 0
  ELSE LoadUpTo(r, d, n - 1) + (IF r[n].day = d THEN r[n].duration_min ELSE 0)

\* sum of duration_min over the entries with day = d
DayLoad(r, d) == LoadUpTo(r, d, Len(r))

\* the duration the normalizer gives a task, written out from the contract
Normalized(t) ==
  LET m == ToMinutes(t) IN IF m < block_min THEN block_min ELSE m

\* the call has returned its list
Returned == pc = "done"

\* ------------------------------------------------------------------------
\* C1
\* ------------------------------------------------------------------------

\* C1 as stated: in every returned schedule the durations of each day sum to
\* at most capacity_per_day.
C1_DayLoadWithinCapacity ==
  Returned =>
    \A k \in 1..Len(ret) : DayLoad(ret, ret[k].day) <= capacity_per_day

\* C1 (amended): in every returned schedule the durations of each day sum to
\* at most capacity_per_day, unless the day holds exactly one entry and that
\* entry alone is longer than capacity_per_day.
C1_DayLoadWithinCapacityOrSingleton ==
  Returned =>
    \A k \in 1..Len(ret) :
      \/ DayLoad(ret, ret[k].day) <= capacity_per_day
      \/ /\ Cardinality(DayEntries(ret, ret[k].day)) = 1
         /\ ret[k].duration_min > capacity_per_day

C1_Witness ==
  /\ Returned
  /\ \E k \in 1..Len(ret) :
       /\ Cardinality(DayEntries(ret, ret[k].day)) >= 2
       /\ DayLoad(ret, ret[k].day) <= capacity_per_day
  /\ \E k \in 1..Len(ret) : ret[k].duration_min > capacity_per_day

\* ------------------------------------------------------------------------
\* C2
\* ------------------------------------------------------------------------

\* C2: the returned list has one entry per input task: as many entries as
\* tasks, every task's (id, normalized duration) is carried by as many entries
\* as there are tasks with that id and duration, and every entry is one
\* unsplit block of that duration.
C2_OneEntryPerTask ==
  Returned =>
    /\ Len(ret) = Len(tasks)
    /\ \A i \in 1..Len(tasks) :
         Cardinality({k \in 1..Len(ret) :
                        /\ ret[k].task_id = tasks[i].id
                        /\ ret[k].duration_min = Normalized(tasks[i])
                        /\ ret[k].end_min - ret[k].start_min = Normalized(tasks[i])})
           = Cardinality({j \in 1..Len(tasks) :
                            /\ tasks[j].id = tasks[i].id
                            /\ Normalized(tasks[j]) = Normalized(tasks[i])})

C2_Witness ==
  /\ Returned
  /\ Len(tasks) >= 2
  /\ \E k \in 1..Len(ret) :
       ret[k].duration_min > block_max /\ ret[k].duration_min > capacity_per_day
  /\ \E k \in 1..Len(ret) : ret[k].duration_min <= block_max

\* ------------------------------------------------------------------------
\* C3
\* ------------------------------------------------------------------------

\* C3 as stated: no task_id appears in more than one entry of a returned list.
C3_TaskIdsUnique ==
  Returned =>
    \A i, j \in 1..Len(ret) : i # j => ret[i].task_id # ret[j].task_id

\* C3 (amended): when the ids of the input tasks are pairwise distinct, no
\* task_id appears in more than one entry of the returned list.
C3_TaskIdsUniqueForDistinctIds ==
  (Returned /\ \A i, j \in 1..Len(tasks) : i # j => tasks[i].id # tasks[j].id)
    => \A i, j \in 1..Len(ret) : i # j => ret[i].task_id # ret[j].task_id

C3_Witness ==
  /\ Returned
  /\ Len(ret) >= 3
  /\ \A i, j \in 1..Len(tasks) : i # j => tasks[i].id # tasks[j].id
  /\ \E k \in 1..Len(ret) : ret[k].duration_min > block_max

\* ------------------------------------------------------------------------
\* C4
\* ------------------------------------------------------------------------

\* C4: every entry has duration_min >= block_min; a task whose duration is
\* below block_min (0 and negative estimates included) is raised to exactly
\* block_min, one at or above block_min keeps its duration; the entries carry
\* exactly the durations of the normalized tasks.
C4_DurationAtLeastBlockMin ==
  /\ \A i \in 1..Len(converted) :
       LET m == ToMinutes(converted[i].orig)
       IN  /\ m < block_min => converted[i].minutes = block_min
           /\ m >= block_min => converted[i].minutes = m
  /\ Returned =>
       \A k \in 1..Len(ret) :
         /\ ret[k].duration_min >= block_min
         /\ \E i \in 1..Len(converted) :
              /\ converted[i].id = ret[k].task_id
              /\ converted[i].minutes = ret[k].duration_min

C4_Witness ==
  /\ Returned
  /\ block_min > 0
  /\ \E i \in 1..Len(converted) :
       ToMinutes(converted[i].orig) < 0 /\ converted[i].minutes = block_min
  /\ \E i \in 1..Len(converted) :
       ToMinutes(converted[i].orig) = 0 /\ converted[i].minutes = block_min
  /\ \E k \in 1..Len(ret) : ret[k].duration_min > block_min

\* ------------------------------------------------------------------------
\* C5
\* ------------------------------------------------------------------------

\* C5: every entry has split_recommended true exactly when its duration_min
\* is greater than block_max (false when they are equal).
C5_SplitRecommendedIffLong ==
  Returned =>
    \A k \in 1..Len(ret) :
      ret[k].split_recommended = (ret[k].duration_min > block_max)

C5_Witness ==
  /\ Returned
  /\ \E k \in 1..Len(ret) :
       ret[k].duration_min = block_max /\ ~ret[k].split_recommended
  /\ \E k \in 1..Len(ret) :
       ret[k].duration_min > block_max /\ ret[k].split_recommended

\* ------------------------------------------------------------------------
\* C6
\* ------------------------------------------------------------------------

\* the entries of each day, taken in the order of the list, are in order of
\* start_min, begin at 0, each begins where the one before ends, and each
\* ends duration_min after it begins
Tiles(r) ==
  \A k \in 1..Len(r) :
    /\ r[k].end_min = r[k].start_min + r[k].duration_min
    /\ IF k > 1 /\ r[k - 1].day = r[k].day
         THEN /\ r[k - 1].start_min <= r[k].start_min
              /\ r[k].start_min = r[k - 1].end_min
         ELSE r[k].start_min = 0

\* C6 as stated: in every returned schedule the entries of each day, ordered
\* by start_min, tile the day from minute 0 without gap or overlap.
C6_DayTiled == Returned => Tiles(ret)

\* C6 (amended): when block_min >= 0 (so no duration is negative), the
\* entries of each day, ordered by start_min, tile the day from minute 0
\* without gap or overlap.
C6_DayTiledForNonNegativeBlockMin == (Returned /\ block_min >= 0) => Tiles(ret)

C6_Witness ==
  /\ Returned
  /\ block_min >= 0
  /\ \E k \in 2..Len(ret) :
       /\ ret[k - 1].day = ret[k].day
       /\ ret[k].start_min > 0
       /\ ret[k].duration_min > 0

\* ------------------------------------------------------------------------
\* C7
\* ------------------------------------------------------------------------

\* round(hours_per_day * 60 * (1 - buffer_ratio)) of the arguments
ConfiguredCapacity ==
  RoundHalfEven(HoursPerDay8(availability) * 60 * (4 - buffer_ratio), 32)

\* C7: when the configuration drives capacity_per_day to 0 or below, a call
\* that has started has raised the configuration error, whatever the task
\* list; no task was normalized, no day was opened, no item was placed and
\* nothing was returned.
C7_NonPositiveCapacityRaises ==
  ConfiguredCapacity <= 0 =>
    /\ pc \in {"idle", "raised"}
    /\ pc = "raised" => err = "capacity"
    /\ converted = <<>>
    /\ days = <<>>
    /\ pos = 0
    /\ result = <<>>
    /\ ret = <<>>

C7_Witness ==
  /\ ConfiguredCapacity = 0
  /\ pc = "raised"
  /\ err = "capacity"
  /\ Len(tasks) >= 2
  /\ ToMinutesRaises(tasks[1])

\* ------------------------------------------------------------------------
\* C8
\* ------------------------------------------------------------------------

\* C8: a non-positive capacity is the only error outcome: with a positive
\* capacity the call never raises, whatever the duration fields hold.
C8_OnlyCapacityRaises == pc = "raised" => ConfiguredCapacity <= 0

\* ------------------------------------------------------------------------
\* C9
\* ------------------------------------------------------------------------

\* C9: a call with the same arguments as the call before it ends the same
\* way: it raises iff that call raised and returns the same list, field for
\* field and in the same order.
C9_Deterministic ==
  (pc \in {"done", "raised"} /\ ref.valid) =>
    /\ (pc = "raised") = ref.raised
    /\ ret = ref.out

C9_Witness ==
  /\ pc = "done"
  /\ ref.valid
  /\ Len(ret) >= 2
  /\ \E k \in 1..Len(ret) : ret[k].day > 0

\* ------------------------------------------------------------------------
\* C10
\* ------------------------------------------------------------------------

\* the task list rearranged by the permutation p of its positions
Permuted(ts, p) == [i \in 1..Len(ts) |-> ts[p[i]]]

\* every rearrangement of the task list gives the list that was returned
SameForEveryOrder ==
  \A p \in Permutations(1..Len(tasks)) :
    CreateSchedule(Permuted(tasks, p), availability, block_min, block_max,
                   buffer_ratio) = ret

\* no two tasks of equal normalized duration carry different ids with the
\* same string form (such as 1 and "1")
NoCollidingIds ==
  \A i, j \in 1..Len(tasks) :
    (Normalized(tasks[i]) = Normalized(tasks[j])
       /\ PyStr(tasks[i].id) = PyStr(tasks[j].id))
      => tasks[i].id = tasks[j].id

\* C10 as stated: task lists that are permutations of each other give the
\* same returned list, whatever the types of the ids.
C10_OrderIndependent == Returned => SameForEveryOrder

\* C10 (amended): task lists that are permutations of each other give the
\* same returned list, provided no two tasks of equal normalized duration
\* carry different ids with the same string form (such as 1 and "1").
C10_OrderIndependentWithoutCollidingIds ==
  (Returned /\ NoCollidingIds) => SameForEveryOrder

C10_Witness ==
  /\ Returned
  /\ NoCollidingIds
  /\ \E i, j \in 1..Len(tasks) :
       /\ i < j
       /\ tasks[i].id # tasks[j].id
       /\ tasks[i].id.kind # tasks[j].id.kind
       /\ Normalized(tasks[i]) = Normalized(tasks[j])
       /\ StrLess(PyStr(tasks[j].id), PyStr(tasks[i].id))

\* ------------------------------------------------------------------------
\* C11
\* ------------------------------------------------------------------------

\* the field is present and not null
Given(f) == f.kind \notin {"absent", "null"}

\* C11: a task's duration is its estimate_minutes (an integer) when that
\* field is present and not null, whatever estimate_hours holds; otherwise
\* round(estimate_hours * 60) when estimate_hours is present and not null;
\* otherwise 60; a value below block_min is raised to block_min.
C11_Normalization ==
  \A i \in 1..Len(converted) :
    LET t == converted[i].orig
        m == converted[i].minutes
    IN  /\ (Given(t.em) /\ t.em.v2 % 2 = 0) =>
             IF t.em.v2 < 2 * block_min THEN m = block_min ELSE 2 * m = t.em.v2
        /\ (~Given(t.em) /\ Given(t.eh)) =>
             LET r == RoundHalfEven(t.eh.v8 * 60, 8)
             IN  IF r < block_min THEN m = block_min ELSE m = r
        /\ (~Given(t.em) /\ ~Given(t.eh)) =>
             IF 60 < block_min THEN m = block_min ELSE m = 60

C11_Witness ==
  /\ Returned
  /\ \E i \in 1..Len(converted) :
       LET t == converted[i].orig
       IN  /\ Given(t.em) /\ Given(t.eh)
           /\ 2 * converted[i].minutes = t.em.v2
           /\ t.em.v2 * 4 # t.eh.v8 * 60
  /\ \E i \in 1..Len(converted) :
       LET t == converted[i].orig
       IN  /\ t.em.kind = "null" /\ Given(t.eh)
           /\ (t.eh.v8 * 60) % 8 = 4
           /\ converted[i].minutes > block_min
  /\ \E i \in 1..Len(converted) :
       LET t == converted[i].orig
       IN  ~Given(t.em) /\ ~Given(t.eh) /\ converted[i].minutes = 60

\* ------------------------------------------------------------------------
\* C12
\* ------------------------------------------------------------------------

\* an entry without its split_recommended flag
Placement(e) ==
  [task_id |-> e.task_id, day |-> e.day, start_min |-> e.start_min,
   end_min |-> e.end_min, duration_min |-> e.duration_min,
   has_ts |-> e.has_ts, start_ts |-> e.start_ts, end_ts |-> e.end_ts]

Placements(r) == [k \in 1..Len(r) |-> Placement(r[k])]

\* values of block_max a second configuration is given
BlockMaxChoices == {-1, 0, 4, 25, 60, 90, 200}

\* the list returned for the same arguments with block_max = bm
WithBlockMax(bm) ==
  CreateSchedule(tasks, availability, block_min, bm, buffer_ratio)

\* C12: a configuration that differs only in block_max gives the same
\* task_id, day, start_min, end_min, duration_min, start_ts and end_ts in
\* every entry; only split_recommended may differ.
C12_SplitFlagAdvisory ==
  Returned =>
    \A bm \in BlockMaxChoices : Placements(WithBlockMax(bm)) = Placements(ret)

C12_Witness ==
  /\ Returned
  /\ Len(ret) >= 2
  /\ \E bm \in BlockMaxChoices :
       \E k \in 1..Len(ret) :
         /\ ret[k].duration_min > block_max
         /\ ret[k].split_recommended
         /\ ~WithBlockMax(bm)[k].split_recommended

\* ------------------------------------------------------------------------
\* C13
\* ------------------------------------------------------------------------

\* days from 1970-01-01 to the calendar date Y-M-D (proleptic Gregorian),
\* by the closed formula
DaysFromCivil(Y, M, D) ==
  LET y   == IF M <= 2 THEN Y - 1 ELSE Y
      era == y \div 400
      yoe == y - era * 400
      mp  == (M + 9) % 12
      doy == (153 * mp + 2) \div 5 + D - 1
      doe == yoe * 365 + yoe \div 4 - yoe \div 100 + doy
  IN  era * 146097 + doe - 719468

\* minutes from 1970-01-01T00:00 to a timestamp
AbsMinutes(ts) == DaysFromCivil(ts.Y, ts.M, ts.D) * 1440 + ts.h * 60 + ts.mi

WellFormedTimestamp(ts) ==
  /\ ts.M \in 1..12
  /\ ts.D \in 1..31
  /\ ts.h \in 0..23
  /\ ts.mi \in 0..59

\* the coordinates of the entries, without the timestamps
Coordinates(r) ==
  [k \in 1..Len(r) |->
     [task_id |-> r[k].task_id, day |-> r[k].day, start_min |-> r[k].start_min,
      end_min |-> r[k].end_min, duration_min |-> r[k].duration_min,
      split_recommended |-> r[k].split_recommended]]

\* the list returned for the same arguments with start_date = sd
WithStartDate(sd) ==
  CreateSchedule(tasks, [availability EXCEPT !.start_date = sd], block_min,
                 block_max, buffer_ratio)

\* C13: with a start_date every entry carries start_ts = start_date 00:00 +
\* day days + start_min minutes and end_ts = start_date 00:00 + day days +
\* end_min minutes, so end_ts - start_ts = duration_min minutes; without a
\* start_date no entry carries a timestamp; the coordinates (day, start_min,
\* end_min) are the same with and without start_date.
C13_TimestampProjection ==
  Returned =>
    /\ IF availability.start_date.kind = "iso"
         THEN LET sd   == availability.start_date
                  base == DaysFromCivil(sd.Y, sd.M, sd.D) * 1440
              IN  \A k \in 1..Len(ret) :
                    /\ ret[k].has_ts
                    /\ WellFormedTimestamp(ret[k].start_ts)
                    /\ WellFormedTimestamp(ret[k].end_ts)
                    /\ AbsMinutes(ret[k].start_ts)
                         = base + 1440 * ret[k].day + ret[k].start_min
                    /\ AbsMinutes(ret[k].end_ts)
                         = base + 1440 * ret[k].day + ret[k].end_min
                    /\ AbsMinutes(ret[k].end_ts) - AbsMinutes(ret[k].start_ts)
                         = ret[k].duration_min
         ELSE \A k \in 1..Len(ret) :
                /\ ~ret[k].has_ts
                /\ ret[k].start_ts = NoTimestamp
                /\ ret[k].end_ts = NoTimestamp
    /\ Coordinates(WithStartDate(NoDate)) = Coordinates(ret)
    /\ Coordinates(WithStartDate(IsoDate(2025, 1, 1))) = Coordinates(ret)

C13_Witness ==
  /\ Returned
  /\ availability.start_date.kind = "iso"
  /\ \E k \in 1..Len(ret) :
       /\ ret[k].day >= 1
       /\ ret[k].start_min > 0
       /\ ret[k].start_ts.D # availability.start_date.D
       /\ ret[k].start_ts.mi = ret[k].start_min

\* ------------------------------------------------------------------------
\* C14
\* ------------------------------------------------------------------------

\* key(a) <= key(b) for the key (day, start_min, str(task_id))
KeyAtMost(a, b) ==
  \/ a.day < b.day
  \/ a.day = b.day /\ a.start_min < b.start_min
  \/ /\ a.day = b.day
     /\ a.start_min = b.start_min
     /\ ~StrLess(PyStr(b.task_id), PyStr(a.task_id))

\* C14: the returned list is sorted by (day, start_min, string form of
\* task_id): each entry's key is at most the key of the entry after it.
C14_ResultSorted ==
  Returned => \A k \in 1..(Len(ret) - 1) : KeyAtMost(ret[k], ret[k + 1])

C14_Witness ==
  /\ Returned
  /\ Len(ret) >= 3
  /\ Flatten(days, availability) # ret
  /\ \E k \in 1..(Len(ret) - 1) : ret[k].day = ret[k + 1].day

\* ------------------------------------------------------------------------
\* C15
\* ------------------------------------------------------------------------

\* the call of scenario A: ids 1, 2, 3 of estimate_hours 2 each, 4 h/day,
\* buffer_ratio 0.25, start_date 2025-01-01 (block_min, block_max default)
ScenarioA ==
  /\ tasks = << Task(IntId(1), Absent, Hours8(16)),
                Task(IntId(2), Absent, Hours8(16)),
                Task(IntId(3), Absent, Hours8(16)) >>
  /\ availability = Avail(Hours8(32), IsoDate(2025, 1, 1))
  /\ buffer_ratio = 1
  /\ block_min = 25
  /\ block_max = 90

\* C15: scenario A has capacity_per_day 180 and returns exactly three
\* entries of duration_min 120: task 1 on day 0, task 2 on day 1, task 3 on
\* day 2, each from minute 0 to minute 120, so every day's load is 120.
C15_ScenarioA ==
  (ScenarioA /\ pc # "idle") =>
    /\ capacity_per_day = 180
    /\ pc # "raised"
    /\ Returned =>
         /\ Len(ret) = 3
         /\ \A k \in 1..3 :
              /\ ret[k].task_id = IntId(k)
              /\ ret[k].day = k - 1
              /\ ret[k].start_min = 0
              /\ ret[k].end_min = 120
              /\ ret[k].duration_min = 120
              /\ DayLoad(ret, k - 1) = 120

C15_Witness == ScenarioA /\ Returned /\ Len(ret) = 3

\* ------------------------------------------------------------------------
\* C16
\* ------------------------------------------------------------------------

RECURSIVE SumNormalized(_)
\* sum of the normalized durations of a task list
SumNormalized(ts) ==
  IF ts = <<>> THEN 0 ELSE Normalized(Head(ts)) + SumNormalized(Tail(ts))

\* every entry is on day 0
AllOnDayZero == \A k \in 1..Len(ret) : ret[k].day = 0

\* C16 as stated: the fit test is inclusive, so whenever the normalized
\* durations sum to at most capacity_per_day every task is placed on day 0.
C16_FitsInOneDay ==
  (Returned /\ SumNormalized(tasks) <= capacity_per_day) => AllOnDayZero

\* C16 (amended): the fit test is inclusive, so whenever block_min >= 0 (no
\* duration is negative) and the normalized durations sum to at most
\* capacity_per_day, every task is placed on day 0.
C16_FitsInOneDayForNonNegativeBlockMin ==
  (Returned /\ block_min >= 0 /\ SumNormalized(tasks) <= capacity_per_day)
    => AllOnDayZero

C16_Witness ==
  /\ Returned
  /\ block_min >= 0
  /\ Len(ret) >= 2
  /\ SumNormalized(tasks) = capacity_per_day
  /\ AllOnDayZero
  /\ \E k \in 1..Len(ret) : ret[k].end_min = capacity_per_day

\* ------------------------------------------------------------------------
\* C17
\* ------------------------------------------------------------------------

\* the outcome of a finished call is the function of its arguments: it raised
\* iff the arguments make the call raise, and otherwise returned the list
\* the arguments determine, however many calls were made before
OutcomeOfArguments ==
  /\ pc = "raised" =>
       CreateScheduleRaises(tasks, availability, block_min, buffer_ratio)
  /\ Returned =>
       /\ ~CreateScheduleRaises(tasks, availability, block_min, buffer_ratio)
       /\ ret = CreateSchedule(tasks, availability, block_min, block_max,
                               buffer_ratio)

\* C17: no step of a call, returning or raising, changes the caller's task
\* records or configuration, and the outcome of every call, first or
\* repeated, is the one its arguments alone determine.
C17_Pure == [][args' = args]_vars /\ []OutcomeOfArguments

C17_Witness ==
  /\ Returned
  /\ ref.valid
  /\ Len(tasks) >= 2
  /\ \E i \in 1..Len(tasks) : converted[i].orig # tasks[i]
  /\ \E i \in 1..Len(tasks) : converted[i].minutes # ToMinutes(tasks[i])

\* ------------------------------------------------------------------------
\* C20
\* ------------------------------------------------------------------------

\* the day at position c received the item as its last entry, at start_min s,
\* and every other day that existed is as before
PlacedOn(c, s) ==
  LET item == converted[pos + 1]
  IN  /\ Len(days'[c].tasks) >= 1
      /\ LET e == days'[c].tasks[Len(days'[c].tasks)]
         IN  /\ e.task_id = item.id
             /\ e.duration_min = item.minutes
             /\ e.start_min = s
      /\ \A i \in 1..Len(days) : i # c => days'[i] = days[i]
      /\ pos' = pos + 1

\* C20: each step places one task: into the existing day that comes first by
\* (load, index) among those with load + minutes <= capacity_per_day; a new
\* day, whose index is the number of days so far, is opened iff no existing
\* day passes that test, and the task is placed there at start_min 0.
C20_SelectionRule ==
  [][ (pc = "place" /\ pos < Len(converted)) =>
        LET m       == converted[pos + 1].minutes
            fitting == {i \in 1..Len(days) : days[i].load + m <= capacity_per_day}
        IN  IF fitting = {}
              THEN /\ Len(days') = Len(days) + 1
                   /\ days'[Len(days) + 1].load = m
                   /\ Len(days'[Len(days) + 1].tasks) = 1
                   /\ PlacedOn(Len(days) + 1, 0)
              ELSE LET c == CHOOSE i \in fitting :
                              \A j \in fitting :
                                \/ days[i].load < days[j].load
                                \/ days[i].load = days[j].load /\ i <= j
                   IN  /\ Len(days') = Len(days)
                       /\ days'[c].tasks = Append(days[c].tasks,
                                                  days'[c].tasks[Len(days'[c].tasks)])
                       /\ days'[c].load = days[c].load + m
                       /\ PlacedOn(c, days[c].load) ]_vars

\* a day was opened for a task the first day could not hold, and it then
\* took a second task that the fuller first day could also have held
C20_Witness ==
  /\ pc = "place"
  /\ Len(days) >= 2
  /\ \E c \in 2..Len(days) :
       /\ Len(days[c].tasks) >= 2
       /\ \E b \in 1..(c - 1) :
            /\ Len(days[b].tasks) = 1
            /\ days[b].load > days[c].tasks[2].start_min
            /\ days[b].load + days[c].tasks[2].duration_min <= capacity_per_day

\* ------------------------------------------------------------------------
\* C18: apply_create and apply_create_events called with dry_run=True issue
\* no request at all and return at once one result per input item, in the
\* order of the input, each with success False, reason 'dry_run' and the
\* item it stands for.
\* ------------------------------------------------------------------------
DryRunCall == c_fn \in {"apply_create", "apply_create_events"} /\ c_dry

C18_DryRunNoWrite ==
  DryRunCall =>
    /\ c_pc = "returned"
    /\ c_sent = {}
    /\ c_ret.count = Len(c_items)
    /\ Len(c_ret.list) = Len(c_items)
    /\ \A i \in 1..Len(c_items) :
         /\ c_ret.list[i].success = FALSE
         /\ c_ret.list[i].reason = "dry_run"
         /\ c_ret.list[i].item = c_items[i]

\* a dry run of apply_create over two different payloads, after a call that
\* did write
C18_Witness ==
  /\ DryRunCall
  /\ c_fn = "apply_create"
  /\ c_wet
  /\ c_pc = "returned"
  /\ Len(c_items) = 2
  /\ c_items[1] # c_items[2]

\* ------------------------------------------------------------------------
\* C19: as long as apply_create has only been called with dry_run=True, no
\* call of create_todoist_payloads, dry_run_create, apply_create or
\* undo_created sends a request.
\* ------------------------------------------------------------------------
TodoistFunctions ==
  {"create_todoist_payloads", "dry_run_create", "apply_create", "undo_created"}

C19_NoRequestUnlessApplied ==
  (c_fn \in TodoistFunctions /\ ~c_wet) => c_sent = {}

\* ------------------------------------------------------------------------
\* C21: tasks are placed in the order (normalized minutes descending, string
\* form of the id ascending): whenever a task is placed, every task placed
\* before it in the call is at least as long, and an equally long one does
\* not have an id whose string form is greater.
\* ------------------------------------------------------------------------
PlacedInOrder(earlier, x) ==
  /\ earlier.minutes >= x.minutes
  /\ earlier.minutes = x.minutes => ~StrLess(PyStr(x.id), PyStr(earlier.id))

C21_PlacementOrder ==
  [][ (pc = "place" /\ pos' = pos + 1) =>
        /\ \E d \in 1..Len(days') :
             /\ days'[d].tasks # <<>>
             /\ days'[d].tasks[Len(days'[d].tasks)].task_id = converted[pos'].id
             /\ days'[d].load = (IF d <= Len(days) THEN days[d].load ELSE 0)
                                  + converted[pos'].minutes
        /\ \A j \in 1..pos : PlacedInOrder(converted[j], converted[pos']) ]_vars

\* id 10 has been placed and id 9, equally long and ahead of it in the
\* caller's list, is placed next
C21_Witness ==
  /\ pc = "place"
  /\ pos = 2
  /\ Len(converted) >= 2
  /\ converted[1].id = IntId(10)
  /\ converted[2].id = IntId(9)
  /\ converted[1].minutes = converted[2].minutes
  /\ tasks[1].id = IntId(9)

\* ------------------------------------------------------------------------
\* C25: with block_min >= 1, a day of a returned schedule whose load exceeds
\* capacity_per_day holds exactly one entry, which starts at minute 0 and is
\* alone longer than capacity_per_day; and no placement step adds a task to
\* a day that already holds one unless the load stays <= capacity_per_day.
\* ------------------------------------------------------------------------
OverloadedDaysAreSingletons ==
  (Returned /\ block_min >= 1) =>
    \A k \in 1..Len(ret) :
      DayLoad(ret, ret[k].day) > capacity_per_day =>
        /\ DayEntries(ret, ret[k].day) = {k}
        /\ ret[k].start_min = 0
        /\ ret[k].duration_min > capacity_per_day

AddsOnlyWithinCapacity ==
  (pc = "place" /\ pos' = pos + 1 /\ block_min >= 1) =>
    \A d \in 1..Len(days) :
      (days'[d] # days[d] /\ days[d].tasks # <<>>) =>
        days'[d].load <= capacity_per_day

C25_OverloadedSingletons ==
  []OverloadedDaysAreSingletons /\ [][AddsOnlyWithinCapacity]_vars

\* an oversized task sits alone on its day and further tasks went elsewhere
C25_Witness ==
  /\ Returned
  /\ block_min >= 1
  /\ Len(ret) = 3
  /\ \E k \in 1..Len(ret) :
       /\ DayLoad(ret, ret[k].day) > capacity_per_day
       /\ \E j \in 1..Len(ret) :
            /\ ret[j].day # ret[k].day
            /\ Cardinality(DayEntries(ret, ret[j].day)) = 2

\* ------------------------------------------------------------------------
\* C26: at every placement step the scan over the days in order of
\* (load, index) selects the first day of that order, the least loaded one
\* with the lowest index, or selects none, never a later one; and the step
\* has the effect of the rule "put the task in the least loaded day if it
\* fits there, else open a new day".
\* ------------------------------------------------------------------------

\* the least loaded day, the lowest position among ties (0 without days)
MinLoadDay(ds) ==
  IF ds = <<>> THEN 0
  ELSE CHOOSE d \in 1..Len(ds) :
         \A e \in 1..Len(ds) :
           \/ ds[d].load < ds[e].load
           \/ ds[d].load = ds[e].load /\ d <= e

\* the simpler rule, written out
SimpleRule(ds, item, cap, bmax) ==
  LET m == MinLoadDay(ds)
      entry == [task_id           |-> item.id,
                start_min         |-> 0,
                end_min           |-> item.minutes,
                duration_min      |-> item.minutes,
                split_recommended |-> item.minutes > bmax]
  IN  IF m # 0 /\ ds[m].load + item.minutes <= cap
        THEN [ds EXCEPT ![m] =
                [load  |-> ds[m].load + item.minutes,
                 tasks |-> Append(ds[m].tasks,
                             [entry EXCEPT !.start_min = ds[m].load,
                                           !.end_min = ds[m].load + item.minutes])]]
        ELSE Append(ds, [load |-> item.minutes, tasks |-> <<entry>>])

C26_LeastLoadEquivalence ==
  [][ (pc = "place" /\ pos' = pos + 1) =>
        LET item  == converted[pos']
            order == Order(days)
            c     == FirstFit(order, days, item.minutes, capacity_per_day)
        IN  /\ c = 0 \/ (c = order[1] /\ c = MinLoadDay(days))
            /\ days' = SimpleRule(days, item, capacity_per_day, block_max) ]_vars

\* two days are open, the least loaded one is not the first, and the task at
\* hand fits it
C26_Witness ==
  /\ pc = "place"
  /\ pos < Len(converted)
  /\ Len(days) >= 2
  /\ MinLoadDay(days) # 1
  /\ FirstFit(Order(days), days, converted[pos + 1].minutes, capacity_per_day)
       = MinLoadDay(days)

\* ------------------------------------------------------------------------
\* C27: with block_min >= 1, within each day of a returned schedule no entry
\* is longer than an entry that starts earlier on the same day, and the
\* first entry of day d+1 is never longer than the first entry of day d.
\* ------------------------------------------------------------------------
C27_DurationsDescend ==
  (Returned /\ block_min >= 1) =>
    \A j \in 1..Len(ret), k \in 1..Len(ret) :
      /\ (ret[j].day = ret[k].day /\ ret[j].start_min < ret[k].start_min)
           => ret[j].duration_min >= ret[k].duration_min
      /\ (ret[k].day = ret[j].day + 1 /\ ret[j].start_min = 0 /\ ret[k].start_min = 0)
           => ret[j].duration_min >= ret[k].duration_min

\* tasks given shortest first end up on two days, one of them holding two
\* entries of different length
C27_Witness ==
  /\ Returned
  /\ block_min >= 1
  /\ Len(tasks) = 3
  /\ \E j \in 1..Len(ret), k \in 1..Len(ret) :
       /\ ret[j].day = ret[k].day
       /\ ret[j].start_min < ret[k].start_min
       /\ ret[j].duration_min > ret[k].duration_min
  /\ \E k \in 1..Len(ret) : ret[k].day = 1
  /\ Normalized(tasks[1]) < Normalized(tasks[2])
  /\ Normalized(tasks[2]) < Normalized(tasks[3])

\* ------------------------------------------------------------------------
\* C28: with block_min >= 1, the final loads of any two distinct days of a
\* returned schedule sum to more than capacity_per_day; more precisely, for
\* every day d > 0 and every earlier day d', load(d') plus the duration of
\* the entry at start_min 0 of day d exceeds capacity_per_day.
\* ------------------------------------------------------------------------
C28_Compact ==
  (Returned /\ block_min >= 1) =>
    \A j \in 1..Len(ret), k \in 1..Len(ret) :
      /\ ret[j].day # ret[k].day
           => DayLoad(ret, ret[j].day) + DayLoad(ret, ret[k].day) > capacity_per_day
      /\ (ret[j].day < ret[k].day /\ ret[k].start_min = 0)
           => DayLoad(ret, ret[j].day) + ret[k].duration_min > capacity_per_day

\* three days, none of them overloaded
C28_Witness ==
  /\ Returned
  /\ block_min >= 1
  /\ \E k \in 1..Len(ret) : ret[k].day = 2
  /\ \A k \in 1..Len(ret) : DayLoad(ret, ret[k].day) <= capacity_per_day

\* ------------------------------------------------------------------------
\* C29: with a start_date, block_min >= 1, capacity_per_day <= 1440 and no
\* normalized duration above capacity_per_day, the interval
\* [start_ts, end_ts) of every entry lies within the calendar day
\* start_date + day, and the intervals of two distinct entries are disjoint.
\* ------------------------------------------------------------------------
FitsCalendarDays ==
  /\ availability.start_date.kind = "iso"
  /\ block_min >= 1
  /\ capacity_per_day <= 1440
  /\ \A i \in 1..Len(tasks) : Normalized(tasks[i]) <= capacity_per_day

\* the first minute of the calendar day start_date + d
DayStart(d) ==
  LET sd   == availability.start_date
      date == AddDays([Y |-> sd.Y, M |-> sd.M, D |-> sd.D], d)
  IN  DaysFromCivil(date.Y, date.M, date.D) * 1440

C29_IntervalsDisjoint ==
  (Returned /\ FitsCalendarDays) =>
    /\ \A k \in 1..Len(ret) :
         /\ DayStart(ret[k].day) <= AbsMinutes(ret[k].start_ts)
         /\ AbsMinutes(ret[k].start_ts) < AbsMinutes(ret[k].end_ts)
         /\ AbsMinutes(ret[k].end_ts) <= DayStart(ret[k].day) + 1440
    /\ \A j \in 1..Len(ret), k \in 1..Len(ret) :
         j # k =>
           \/ AbsMinutes(ret[j].end_ts) <= AbsMinutes(ret[k].start_ts)
           \/ AbsMinutes(ret[k].end_ts) <= AbsMinutes(ret[j].start_ts)

\* a day filled to midnight, followed by a day with two entries
C29_Witness ==
  /\ Returned
  /\ FitsCalendarDays
  /\ capacity_per_day = 1440
  /\ Len(ret) = 3
  /\ ret[1].end_min = 1440
  /\ ret[2].day = 1
  /\ ret[3].day = 1
  /\ ret[3].start_min > 0

\* ------------------------------------------------------------------------
\* Vocabulary of the retry claims
\* ------------------------------------------------------------------------

\* a _request_with_retry is running; c_attempt attempts of it have failed
InRetry ==
  /\ c_pc = "loop"
  /\ ~(c_fn = "undo_created" /\ WithoutId(c_items[c_idx + 1]))

\* the step is an attempt after which the loop goes on
Retries == InRetry /\ c_attempt' = c_attempt + 1 /\ c_idx' = c_idx

\* the step is the attempt with which _request_with_retry returns
Ends == InRetry /\ c_idx' = c_idx + 1

\* the (success, response) the step hands to the caller
Handed == c_results'[Len(c_results')]

RetryableOutcome(o) ==
  o \in {"exception", "rate_limited", "server_error", "http_error"}

SuccessOutcome(o) == o \in {"json", "bad_json", "no_content", "ok"}

\* ------------------------------------------------------------------------
\* C22: a _request_with_retry whose attempts all fail with a retryable
\* outcome (Todoist: exception, 429, 5xx; Calendar: HttpError) returns with
\* its max_retries-th attempt, reporting failure with
\* {'error': 'max_retries_exceeded'}; no call makes more than max_retries
\* attempts; apply_create_events records success False for such an event.
\* ------------------------------------------------------------------------
AttemptsBounded ==
  /\ c_pc = "loop" => c_attempt < c_max
  /\ c_attempt <= c_max
  /\ (c_fn \in RetryFunctions /\ c_pc = "returned"
        /\ RetryableOutcome(c_out.outcome)) =>
       /\ c_attempt = c_max
       /\ c_ret.list = <<NoAttemptLeft>>
  /\ (c_fn \in RetryFunctions /\ c_max = 0) =>
       /\ c_pc = "returned"
       /\ c_sent = {}
       /\ c_ret.list = <<NoAttemptLeft>>

ExhaustionStep ==
  /\ Retries => (RetryableOutcome(c_out'.outcome) /\ c_attempt' < c_max)
  /\ (Ends /\ RetryableOutcome(c_out'.outcome)) =>
       /\ c_attempt + 1 = c_max
       /\ Handed.success = FALSE
       /\ Handed.response = Resp("max_retries", 0)
  /\ (InRetry /\ c_attempt + 1 = c_max /\ RetryableOutcome(c_out'.outcome)) => Ends

C22_RetryExhaustion == []AttemptsBounded /\ [][ExhaustionStep]_vars

\* apply_create_events has returned and its last event ran out of attempts
C22_Witness ==
  /\ c_fn = "apply_create_events"
  /\ c_pc = "returned"
  /\ Len(c_items) = 2
  /\ c_out.outcome = "http_error"
  /\ c_ret.list[1].success
  /\ ~c_ret.list[2].success
  /\ c_ret.list[2].response = Resp("max_retries", 0)

\* ------------------------------------------------------------------------
\* C23: if k < max_retries attempts fail with a retryable outcome and the
\* next one succeeds (Todoist: 200, 201 or 204), _request_with_retry returns
\* success with that attempt's response after these k + 1 attempts and
\* makes no further attempt; the Todoist body is the parsed JSON, or None
\* for status 204 or an unparsable body.
\* ------------------------------------------------------------------------

\* the response of a successful attempt
BodyOf(out) ==
  CASE out.outcome = "json"       -> Resp("json", out.id)
    [] out.outcome = "bad_json"   -> Resp("none", 0)
    [] out.outcome = "no_content" -> Resp("none", 0)
    [] out.outcome = "ok"         -> Resp("json", out.id)

SuccessStep ==
  /\ (InRetry /\ SuccessOutcome(c_out'.outcome)) => Ends
  /\ Retries => ~SuccessOutcome(c_out'.outcome)
  /\ (Ends /\ SuccessOutcome(c_out'.outcome)) =>
       /\ c_attempt < c_max
       /\ Handed.success = TRUE
       /\ Handed.response = BodyOf(c_out')
       /\ c_fn \in RetryFunctions => (c_pc' = "returned" /\ c_attempt' = c_attempt)

SuccessReturned ==
  (c_fn \in RetryFunctions /\ c_pc = "returned" /\ SuccessOutcome(c_out.outcome)) =>
    /\ c_attempt < c_max
    /\ c_ret.list = <<Result(TRUE, "", BodyOf(c_out), 0, 0)>>

C23_RetryThenSuccess == []SuccessReturned /\ [][SuccessStep]_vars

\* two attempts failed, the third had an unparsable body
C23_Witness ==
  /\ c_fn = "todoist._request_with_retry"
  /\ c_pc = "returned"
  /\ c_attempt = 2
  /\ c_out.outcome = "bad_json"
  /\ c_ret.list[1].success

\* ------------------------------------------------------------------------
\* C24: in every group that partition_tasks_greedy returns the estimates
\* (1.0 for a missing or zero estimate) sum to at most max_hours.
\* ------------------------------------------------------------------------
RECURSIVE GroupHours8(_)
GroupHours8(g) ==
  IF g = <<>> THEN 0
  ELSE (IF Head(g).eh.kind = "absent" \/ Head(g).eh.v8 = 0 THEN 8 ELSE Head(g).eh.v8)
         + GroupHours8(Tail(g))

C24_GroupsWithinMaxHours ==
  p_pc = "returned" =>
    \A k \in 1..Len(p_groups) : GroupHours8(p_groups[k]) <= p_max

\* ------------------------------------------------------------------------
\* C30: the response of apply_plan that carries the field reports
\* external_writes_performed = true exactly when the request has
\* dry_run = false and confirm = true (missing fields taking the defaults
\* dry_run = true, confirm = false); in every other case every returned
\* action string starts with 'DRY-RUN: '.
\* ------------------------------------------------------------------------
Answered == a_pc = "done" /\ a_resp.status = 200

RequestsWrites == a_req.dry_run = "false" /\ a_req.confirm = "true"

StartsWith(str, prefix) ==
  Len(str) >= Len(prefix) /\ SubSeq(str, 1, Len(prefix)) = prefix

C30_WritesOnlyWhenConfirmed ==
  Answered =>
    /\ a_resp.external_writes_performed = RequestsWrites
    /\ ~RequestsWrites =>
         \A i \in 1..Len(a_resp.actions) : StartsWith(a_resp.actions[i], StrDryRun)

\* dry_run = false without confirm: both actions come back as dry-run
C30_Witness ==
  /\ Answered
  /\ a_req.dry_run = "false"
  /\ a_req.confirm = "absent"
  /\ ~a_resp.external_writes_performed
  /\ Len(a_resp.actions) = 2

====
